---- MODULE Spec2Model ----
(***************************************************************************)
(* Model of the multisig orchestrator (multisig-server): the proposal      *)
(* store, the signature collector, the submission handler and the validity *)
(* monitor, running as concurrent tasks over one relational store and one  *)
(* ledger gateway.  Every `.await` of the source is one atomic step; the   *)
(* pure code that follows an await up to the next one belongs to the step. *)
(***************************************************************************)
EXTENDS Integers, Sequences, FiniteSets, TLC

\* ------------------------------------------------------------------ bounds

\* The ledger epoch runs over 0..MaxEpoch.
MaxEpoch == 1
\* The access rule's threshold is drawn from 1..MaxThreshold.
MaxThreshold == 2
\* max_attempts handed to wait_for_commit (the handler passes 60).
MaxAttempts == 2
\* wait_for_commit called on its own takes max_attempts in 0..MaxPollAttempts.
MaxPollAttempts == 4
\* The width, in bits, the model gives the code's 64-bit integers (u64, i64).
IntBits == 3

\* ------------------------------------------------------------ the tasks

\* Ids of the proposals that can be created (rows of table proposals).
ProposalIds == {1}
\* The sign_proposal tasks that run concurrently with everything else.
SignReqs == {1, 2}
\* The sign_proposal tasks of the runs that only sign.
SignOnlyReqs == {1, 2, 3}
\* The submit_proposal tasks.
SubmitReqs == {1}

\* ------------------------------------------------------- ProposalStatus

ProposalStatus ==
    {"Created", "Signing", "Ready", "Submitting",
     "Committed", "Failed", "Expired", "Invalid"}

ActiveStatuses == {"Created", "Signing", "Ready"}

TerminalStatuses == {"Committed", "Failed", "Expired", "Invalid"}

\* can_transition_to that lets every status lead to every other.
can_transition_to_any_other(from, to) == from # to

can_transition_to(from, to) ==
    <<from, to>> \in
        { <<"Created", "Signing">>, <<"Signing", "Ready">>,
          <<"Ready", "Submitting">>, <<"Submitting", "Committed">>,
          <<"Submitting", "Failed">>, <<"Created", "Expired">>,
          <<"Signing", "Expired">>, <<"Ready", "Expired">>,
          <<"Created", "Invalid">>, <<"Signing", "Invalid">>,
          <<"Ready", "Invalid">> }

\* ------------------------------------------------------------ keys, rule

\* Public keys that sign partials: two that the account's rule may name and
\* one that it never names.
PublicKeys == {"pk1", "pk2", "pkx"}

\* The ledger's hash of a public key (the virtual badge's local id).
compute_key_hash(public_key_hex) ==
    CASE public_key_hex = "pk1" -> "h1"
      [] public_key_hex = "pk2" -> "h2"
      [] OTHER -> "hx"

\* Key hashes the access rule of the multisig account lists at the start.
RuleKeyHashes == {"h1", "h2"}

\* The signers the account's owner removes from the rule, or adds back.
DriftKeyHashes == {"h1"}

NoValue == "null"

\* find_signer_by_hash that is satisfied by any rule that lists a signer.
find_signer_by_hash_any(access_rule, key_hash) == access_rule.signers # {}

\* find_signer_by_hash(..).is_some()
find_signer_by_hash(access_rule, key_hash) == key_hash \in access_rule.signers

\* ------------------------------------------------- signed partials (input)

\* The subintent hash stored with proposal id (unique per proposal: the
\* builder draws a fresh discriminator).
SubintentHashOf(id) == <<"subtxid", id>>

\* A wallet-returned signed partial: the intent it was built over (0: an
\* intent of no proposal), the kind of its first root signature ("None": no
\* signature at all), the public key the signature carries, and whether the
\* signature bytes verify under that key over the intent.
Partials ==
    [intent : {0} \cup ProposalIds, kind : {"Ed25519"},
     public_key : PublicKeys, signature_bytes : {"genuine"}]
    \cup [intent : ProposalIds, kind : {"Ed25519"},
          public_key : {"pk1"}, signature_bytes : {"forged"}]
    \cup [intent : ProposalIds, kind : {"Secp256k1", "None"},
          public_key : {NoValue}, signature_bytes : {"genuine"}]

\* Partials a wallet that honours the header returns for a proposal: Ed25519,
\* genuinely signed, over the proposal's own intent.
WalletPartials ==
    [intent : ProposalIds, kind : {"Ed25519"},
     public_key : {"pk1", "pk2"}, signature_bytes : {"genuine"}]

compute_subintent_hash_from_signed_partial_hex(partial) ==
    <<"subtxid", partial.intent>>

\* extract_signature_from_hex: an error tag, or "ok".
extract_signature_from_hex(partial) ==
    CASE partial.kind = "None" -> "no signatures"
      [] partial.kind = "Secp256k1" -> "Secp256k1 not yet supported"
      [] OTHER -> "ok"

\* ------------------------------------------------------------------ state

VARIABLES
    proposals,            \* table proposals, in created_at order (id = index)
    signatures,           \* table signatures, in created_at order
    submission_attempts,  \* table submission_attempts (append-only)
    current_epoch,        \* ledger: the gateway's current epoch
    live_rule,            \* ledger: owner rule of the multisig account
    gateway_txs,          \* ledger: transactions handed to /transaction/submit
    sign,                 \* the sign_proposal tasks
    submit,               \* the submit_proposal tasks
    monitor,              \* the validity monitor task
    call                  \* the last direct call of the store, with its result

vars == <<proposals, signatures, submission_attempts, current_epoch, live_rule,
          gateway_txs, sign, submit, monitor, call>>

store_vars == <<proposals, signatures, submission_attempts>>
ledger_vars == <<current_epoch, live_rule, gateway_txs>>

Exists(props, id) == id \in DOMAIN props

\* ----------------------------------------------------------- ProposalStore

\* invalid_reason is a sequence of strings: << >> is NULL.
ExpiredReason == <<"Proposal epoch window has passed">>

InvalidReason(removed_signers) ==
    <<"Access rule changed - signer(s) removed:">> \o removed_signers

\* ProposalStore::create: the inserted row (status defaults to 'created').
\* `x as i64` of a u64 and `x as u64` of an i64 (two's complement, IntBits wide).
as_i64(x) == IF x >= 2 ^ (IntBits - 1) THEN x - 2 ^ IntBits ELSE x

as_u64(x) == IF x < 0 THEN x + 2 ^ IntBits ELSE x

create(input) ==
    [epoch_min |-> input.epoch_min, epoch_max |-> input.epoch_max,
     status |-> "Created", subintent_hash |-> input.subintent_hash,
     submitted_at |-> 0, tx_id |-> 0, invalid_reason |-> << >>]

\* transition_status whose UPDATE lacks the status = from condition.
transition_status_any_stored(props, id, from, to) ==
    IF can_transition_to(from, to) /\ Exists(props, id)
    THEN [ok |-> TRUE, proposals |-> [props EXCEPT ![id].status = to]]
    ELSE [ok |-> FALSE, proposals |-> props]

\* UPDATE proposals SET status = to WHERE id = id AND status = from
transition_status(props, id, from, to) ==
    IF can_transition_to(from, to) /\ Exists(props, id) /\ props[id].status = from
    THEN [ok |-> TRUE, proposals |-> [props EXCEPT ![id].status = to]]
    ELSE [ok |-> FALSE, proposals |-> props]

\* update_tx_id whose UPDATE carries the condition status = 'ready'.
update_tx_id_when_ready(props, id, tx_id, now) ==
    IF Exists(props, id) /\ props[id].status = "Ready"
    THEN [ok |-> TRUE,
          proposals |-> [props EXCEPT ![id].tx_id = tx_id, ![id].submitted_at = now]]
    ELSE [ok |-> FALSE, proposals |-> props]

\* UPDATE proposals SET tx_id, submitted_at = NOW() WHERE id = id
\* (tx_id 0 is NULL; the timestamp is named by the call that read the clock)
update_tx_id(props, id, tx_id, now) ==
    IF Exists(props, id)
    THEN [ok |-> TRUE,
          proposals |-> [props EXCEPT ![id].tx_id = tx_id, ![id].submitted_at = now]]
    ELSE [ok |-> FALSE, proposals |-> props]

\* record_submission_attempt that binds no tx_hash (0 is NULL).
record_submission_attempt_without_hash(attempts, proposal_id, tx_hash, status, error_message) ==
    Append(attempts, [proposal_id |-> proposal_id, tx_hash |-> 0,
                      status |-> status, error_message |-> error_message])

record_submission_attempt(attempts, proposal_id, tx_hash, status, error_message) ==
    Append(attempts, [proposal_id |-> proposal_id, tx_hash |-> tx_hash,
                      status |-> status, error_message |-> error_message])

\* SELECT ... WHERE status IN ('created','signing','ready') ORDER BY created_at
list_active(props) ==
    SelectSeq([i \in DOMAIN props |-> [id |-> i, status |-> props[i].status,
                                       epoch_max |-> props[i].epoch_max]],
              LAMBDA p : p.status \in ActiveStatuses)

\* mark_expired whose UPDATE lacks the status IN (...) condition.
mark_expired_any_status(props, id) ==
    IF Exists(props, id)
    THEN [ok |-> TRUE,
          proposals |-> [props EXCEPT ![id].status = "Expired",
                                      ![id].invalid_reason = ExpiredReason]]
    ELSE [ok |-> FALSE, proposals |-> props]

mark_expired(props, id) ==
    IF Exists(props, id) /\ props[id].status \in ActiveStatuses
    THEN [ok |-> TRUE,
          proposals |-> [props EXCEPT ![id].status = "Expired",
                                      ![id].invalid_reason = ExpiredReason]]
    ELSE [ok |-> FALSE, proposals |-> props]

\* mark_invalid whose UPDATE writes the status 'failed'.
mark_invalid_as_failed(props, id, reason) ==
    IF Exists(props, id) /\ props[id].status \in ActiveStatuses
    THEN [ok |-> TRUE,
          proposals |-> [props EXCEPT ![id].status = "Failed",
                                      ![id].invalid_reason = reason]]
    ELSE [ok |-> FALSE, proposals |-> props]

\* mark_invalid whose UPDATE lacks the status IN (created, signing, ready)
\* condition.
mark_invalid_any_status(props, id, reason) ==
    IF Exists(props, id)
    THEN [ok |-> TRUE,
          proposals |-> [props EXCEPT ![id].status = "Invalid",
                                      ![id].invalid_reason = reason]]
    ELSE [ok |-> FALSE, proposals |-> props]

mark_invalid(props, id, reason) ==
    IF Exists(props, id) /\ props[id].status \in ActiveStatuses
    THEN [ok |-> TRUE,
          proposals |-> [props EXCEPT ![id].status = "Invalid",
                                      ![id].invalid_reason = reason]]
    ELSE [ok |-> FALSE, proposals |-> props]

\* invalidate_signature as DELETE FROM signatures WHERE proposal_id AND
\* signer_key_hash.
invalidate_signature_by_delete(sigs, proposal_id, signer_key_hash) ==
    SelectSeq(sigs, LAMBDA s : ~(s.proposal_id = proposal_id
                                 /\ s.signer_key_hash = signer_key_hash))

\* UPDATE signatures SET is_valid = FALSE WHERE proposal_id AND signer_key_hash
invalidate_signature(sigs, proposal_id, signer_key_hash) ==
    [i \in DOMAIN sigs |->
        IF sigs[i].proposal_id = proposal_id
           /\ sigs[i].signer_key_hash = signer_key_hash
        THEN [sigs[i] EXCEPT !.is_valid = FALSE]
        ELSE sigs[i]]

SigsOf(sigs, proposal_id) ==
    SelectSeq(sigs, LAMBDA s : s.proposal_id = proposal_id)

\* SELECT signer_key_hash, is_valid FROM signatures WHERE proposal_id
get_signature_key_hashes(sigs, proposal_id) ==
    LET rows == SigsOf(sigs, proposal_id)
    IN  [i \in DOMAIN rows |->
            [key_hash |-> rows[i].signer_key_hash, is_valid |-> rows[i].is_valid]]

\* count_valid_signatures whose SELECT lacks the is_valid = TRUE condition.
count_valid_signatures_all_rows(sigs, proposal_id) ==
    Len(SigsOf(sigs, proposal_id))

count_valid_signatures(sigs, proposal_id) ==
    Len(SelectSeq(SigsOf(sigs, proposal_id), LAMBDA s : s.is_valid))

\* ------------------------------------------------------ SignatureCollector

\* SELECT COUNT(*) FROM signatures WHERE proposal_id
count_signatures(sigs, proposal_id) == Len(SigsOf(sigs, proposal_id))

\* The UNIQUE (proposal_id, signer_key_hash) constraint of table signatures.
is_unique_violation(sigs, proposal_id, key_hash) ==
    \E i \in DOMAIN sigs :
        sigs[i].proposal_id = proposal_id /\ sigs[i].signer_key_hash = key_hash

\* The INSERT with its conflict swallowed (ON CONFLICT DO NOTHING): Ok, no row.
insert_signature_ignoring_conflict(sigs, proposal_id, partial) ==
    LET key_hash == compute_key_hash(partial.public_key)
    IN  [ok |-> TRUE,
         signatures |->
            IF is_unique_violation(sigs, proposal_id, key_hash) THEN sigs
            ELSE Append(sigs, [proposal_id |-> proposal_id,
                               signer_public_key |-> partial.public_key,
                               signer_key_hash |-> key_hash,
                               signature_bytes |-> partial.signature_bytes,
                               is_valid |-> TRUE])]

\* INSERT INTO signatures (...): is_valid defaults to TRUE.
insert_signature(sigs, proposal_id, partial) ==
    LET key_hash == compute_key_hash(partial.public_key)
    IN  IF is_unique_violation(sigs, proposal_id, key_hash)
        THEN [ok |-> FALSE, signatures |-> sigs]
        ELSE [ok |-> TRUE,
              signatures |->
                  Append(sigs, [proposal_id |-> proposal_id,
                                signer_public_key |-> partial.public_key,
                                signer_key_hash |-> key_hash,
                                signature_bytes |-> partial.signature_bytes,
                                is_valid |-> TRUE])]

\* get_signature_status that counts only the rows still marked valid.
get_signature_status_valid_rows(sigs, proposal_id, access_rule) ==
    LET rows == SigsOf(sigs, proposal_id)
        collected == Len(SelectSeq(rows, LAMBDA s : s.is_valid))
        threshold == access_rule.threshold
    IN  [collected |-> collected,
         threshold |-> threshold,
         remaining |-> IF threshold > collected THEN threshold - collected ELSE 0,
         signers |->
            [h \in access_rule.signers |->
                IF \E i \in DOMAIN rows : rows[i].signer_key_hash = h
                THEN [has_signed |-> TRUE,
                      \* HashMap collect: the last row of a key wins
                      is_valid |->
                          rows[CHOOSE i \in DOMAIN rows :
                                  /\ rows[i].signer_key_hash = h
                                  /\ \A j \in DOMAIN rows :
                                        rows[j].signer_key_hash = h => j <= i].is_valid]
                ELSE [has_signed |-> FALSE, is_valid |-> TRUE]]]

\* get_signature_status: the SignatureStatus built from list_signatures.
get_signature_status(sigs, proposal_id, access_rule) ==
    LET rows == SigsOf(sigs, proposal_id)
        collected == Len(rows)
        threshold == access_rule.threshold
    IN  [collected |-> collected,
         threshold |-> threshold,
         remaining |-> IF threshold > collected THEN threshold - collected ELSE 0,
         signers |->
            [h \in access_rule.signers |->
                IF \E i \in DOMAIN rows : rows[i].signer_key_hash = h
                THEN [has_signed |-> TRUE,
                      \* HashMap collect: the last row of a key wins
                      is_valid |->
                          rows[CHOOSE i \in DOMAIN rows :
                                  /\ rows[i].signer_key_hash = h
                                  /\ \A j \in DOMAIN rows :
                                        rows[j].signer_key_hash = h => j <= i].is_valid]
                ELSE [has_signed |-> FALSE, is_valid |-> TRUE]]]

\* ------------------------------------------------------------ task records

NoRule == [signers |-> {}, threshold |-> 0]
NoPartial ==
    [intent |-> 0, kind |-> "None", public_key |-> NoValue,
     signature_bytes |-> "genuine"]
NoResponse == [collected |-> 0, threshold |-> 0, remaining |-> 0]

SignIdle ==
    [pc |-> "idle", id |-> 0, partial |-> NoPartial, access_rule |-> NoRule,
     status |-> NoValue, sig_count |-> 0, result |-> NoValue,
     response |-> NoResponse]

SubmitIdle ==
    [pc |-> "idle", id |-> 0, raw_sigs |-> << >>, current_epoch |-> 0,
     duplicate |-> FALSE, attempt |-> 0, tx_status |-> NoValue,
     result |-> NoValue, tx_id |-> 0, error |-> NoValue]

MonitorIdle ==
    [pc |-> "idle", to_expire |-> << >>, todo |-> << >>,
     access_rule |-> NoRule, removed_signers |-> << >>, k |-> 1]

NoCall == [op |-> NoValue]

Init ==
    /\ proposals = << >>
    /\ signatures = << >>
    /\ submission_attempts = << >>
    /\ current_epoch = 0
    /\ live_rule \in [signers : {RuleKeyHashes}, threshold : 1..MaxThreshold]
    /\ gateway_txs = << >>
    /\ sign = [r \in SignReqs |-> SignIdle]
    /\ submit = [r \in SubmitReqs |-> SubmitIdle]
    /\ monitor = MonitorIdle
    /\ call = NoCall

\* --------------------------------------------------------------- the ledger

\* The network moves to the next epoch.
AdvanceEpoch ==
    /\ current_epoch < MaxEpoch
    /\ current_epoch' = current_epoch + 1
    /\ UNCHANGED <<store_vars, live_rule, gateway_txs, sign, submit, monitor, call>>

\* The account's owner removes a signer from the rule (threshold kept).
RemoveSigner(h) ==
    /\ h \in live_rule.signers
    /\ live_rule' = [live_rule EXCEPT !.signers = @ \ {h}]
    /\ UNCHANGED <<store_vars, current_epoch, gateway_txs, sign, submit, monitor, call>>

\* The account's owner adds a signer (back) to the rule.
AddSigner(h) ==
    /\ h \in RuleKeyHashes \ live_rule.signers
    /\ live_rule' = [live_rule EXCEPT !.signers = @ \cup {h}]
    /\ UNCHANGED <<store_vars, current_epoch, gateway_txs, sign, submit, monitor, call>>

\* ------------------------------------------------- POST /proposals (create)

\* access_rule.signers.len() > 1 || access_rule.threshold > 1
is_multisig(access_rule) ==
    Cardinality(access_rule.signers) > 1 \/ access_rule.threshold > 1

\* The expiry test with < in place of <=.
expiry_rejected_below(epoch_max, epoch_min) == epoch_max < epoch_min

\* if epoch_max <= epoch_min { return 400 }
expiry_rejected(epoch_max, epoch_min) == epoch_max <= epoch_min

\* proposal_store.create(CreateProposal { epoch_min as i64, epoch_max as i64, .. })
store_create(epoch_min, epoch_max) ==
    proposals' =
        Append(proposals,
               create([epoch_min |-> as_i64(epoch_min), epoch_max |-> as_i64(epoch_max),
                       subintent_hash |-> SubintentHashOf(Len(proposals) + 1)]))

\* create_proposal: the rule of the manifest's account must be multi-signer,
\* expiry_epoch must exceed the epoch just read, then the row is inserted.
create_proposal(expiry_epoch) ==
    /\ Len(proposals) + 1 \in ProposalIds
    /\ is_multisig(live_rule)
    /\ ~expiry_rejected(expiry_epoch, current_epoch)
    /\ store_create(current_epoch, expiry_epoch)
    /\ UNCHANGED <<signatures, submission_attempts, ledger_vars, sign, submit, monitor, call>>

\* ------------------------------------- POST /proposals/{id}/sign (8 awaits)

\* The end of a sign request: the task keeps what it answered, for which
\* proposal and partial.
SignReturn(req, result) ==
    [SignIdle EXCEPT !.pc = "done", !.id = req.id, !.partial = req.partial,
                     !.result = result]

\* sign_proposal up to add_signature's first store call: store.get (404 for
\* an unknown id), gateway.read_access_rule (500 when the gateway fails), then
\* add_signature's checks of the partial against the hash and the rule.
sign_proposal(r, id, partial) ==
    /\ sign[r].pc = "idle"
    /\ \E gateway_ok \in BOOLEAN :
        LET req == [sign[r] EXCEPT !.id = id, !.partial = partial]
            result ==
                IF ~Exists(proposals, id) THEN "Proposal not found"
                ELSE IF ~gateway_ok THEN "Failed to read access rule"
                ELSE IF compute_subintent_hash_from_signed_partial_hex(partial)
                            # proposals[id].subintent_hash
                    THEN "different subintent hash"
                ELSE IF extract_signature_from_hex(partial) # "ok"
                    THEN extract_signature_from_hex(partial)
                ELSE IF ~find_signer_by_hash(live_rule,
                                             compute_key_hash(partial.public_key))
                    THEN "not in the current access rule"
                ELSE "ok"
        IN  sign' = [sign EXCEPT ![r] =
                IF result = "ok"
                THEN [req EXCEPT !.pc = "get", !.access_rule = live_rule]
                ELSE SignReturn(req, result)]
    /\ UNCHANGED <<store_vars, ledger_vars, submit, monitor, call>>

\* A sign request whose partial is a wallet's Ed25519 signature over the
\* proposal's own subintent.
SignStart(r) ==
    /\ \A q \in DOMAIN sign : q < r => sign[q].pc # "idle"   \* tasks are taken in order
    /\ \E id \in ProposalIds, partial \in WalletPartials : sign_proposal(r, id, partial)

\* add_signature: proposal_store.get and the status check.
SignGet(r) ==
    /\ sign[r].pc = "get"
    /\ LET status == proposals[sign[r].id].status
       IN  sign' = [sign EXCEPT ![r] =
               IF status # "Created" /\ status # "Signing"
               THEN SignReturn(@, "status: not Created or Signing")
               ELSE [@ EXCEPT !.pc = "insert", !.status = status]]
    /\ UNCHANGED <<store_vars, ledger_vars, submit, monitor, call>>

\* add_signature: INSERT INTO signatures and the match on its result.
SignInsert(r) ==
    /\ sign[r].pc = "insert"
    /\ LET res == insert_signature(signatures, sign[r].id, sign[r].partial)
       IN  /\ signatures' = res.signatures
           /\ sign' = [sign EXCEPT ![r] =
                 IF res.ok THEN [@ EXCEPT !.pc = "count"]
                 ELSE SignReturn(@, "already signed")]
    /\ UNCHANGED <<proposals, submission_attempts, ledger_vars, submit, monitor, call>>

\* Where add_signature goes after a step, given the statuses it holds.
AfterCount(req) ==
    IF req.status = "Created" THEN "to_signing"
    ELSE IF req.sig_count >= req.access_rule.threshold THEN "to_ready"
    ELSE "status"

\* The threshold test with > in place of >=.
AfterSigning_above_threshold(req) ==
    IF req.sig_count > req.access_rule.threshold THEN "to_ready" ELSE "status"

AfterSigning(req) ==
    IF req.sig_count >= req.access_rule.threshold THEN "to_ready" ELSE "status"

\* add_signature: count_signatures.
SignCount(r) ==
    /\ sign[r].pc = "count"
    /\ LET req == [sign[r] EXCEPT !.sig_count = count_signatures(signatures, sign[r].id)]
       IN  sign' = [sign EXCEPT ![r] = [req EXCEPT !.pc = AfterCount(req)]]
    /\ UNCHANGED <<store_vars, ledger_vars, submit, monitor, call>>

\* add_signature: transition_status(Created, Signing)?  (an Err returns)
SignToSigning(r) ==
    /\ sign[r].pc = "to_signing"
    /\ LET res == transition_status(proposals, sign[r].id, "Created", "Signing")
       IN  /\ proposals' = res.proposals
           /\ sign' = [sign EXCEPT ![r] =
                 IF res.ok THEN [@ EXCEPT !.pc = AfterSigning(sign[r])]
                 ELSE SignReturn(@, "not found or not in Created status")]
    /\ UNCHANGED <<signatures, submission_attempts, ledger_vars, submit, monitor, call>>

\* add_signature: transition_status(Signing, Ready)?  (an Err returns)
SignToReady(r) ==
    /\ sign[r].pc = "to_ready"
    /\ LET res == transition_status(proposals, sign[r].id, "Signing", "Ready")
       IN  /\ proposals' = res.proposals
           /\ sign' = [sign EXCEPT ![r] =
                 IF res.ok THEN [@ EXCEPT !.pc = "status"]
                 ELSE SignReturn(@, "not found or not in Signing status")]
    /\ UNCHANGED <<signatures, submission_attempts, ledger_vars, submit, monitor, call>>

\* add_signature: get_signature_status, the handler's 200 response.
SignStatus(r) ==
    /\ sign[r].pc = "status"
    /\ LET st == get_signature_status(signatures, sign[r].id, sign[r].access_rule)
       IN  sign' = [sign EXCEPT ![r] =
               [SignReturn(@, "ok") EXCEPT
                   !.response = [collected |-> st.collected,
                                 threshold |-> st.threshold,
                                 remaining |-> st.remaining]]]
    /\ UNCHANGED <<store_vars, ledger_vars, submit, monitor, call>>

\* --------------------------------------------------- GatewayClient (polling)

\* What /transaction/status may answer ("error": the call itself fails).
StatusAnswers ==
    {"CommittedSuccess", "CommittedFailure", "Rejected", "Pending", "Unknown",
     "Other", "error"}

\* wait_for_commit that sleeps after every Pending or Unknown answer, the
\* last one included.
wait_for_commit_always_sleeps(answer, attempt, max_attempts) ==
    CASE answer = "error" -> "Err: status query failed"
      [] answer = "CommittedSuccess" -> "Ok"
      [] answer = "CommittedFailure" -> "Err: transaction failed"
      [] answer = "Rejected" -> "Err: transaction rejected"
      [] answer \in {"Pending", "Unknown"} -> "retry"
      [] OTHER -> "Err: unexpected transaction status"

\* wait_for_commit whose match takes CommittedFailure for a commit as well.
wait_for_commit_any_committed(answer, attempt, max_attempts) ==
    CASE answer = "error" -> "Err: status query failed"
      [] answer \in {"CommittedSuccess", "CommittedFailure"} -> "Ok"
      [] answer = "Rejected" -> "Err: transaction rejected"
      [] answer \in {"Pending", "Unknown"} ->
            IF attempt + 1 < max_attempts THEN "retry" ELSE "Err: timeout"
      [] OTHER -> "Err: unexpected transaction status"

\* One iteration of wait_for_commit's loop, at 0-based `attempt`: the Ok/Err
\* it returns, or "retry" when the loop goes on to the next attempt.
wait_for_commit(answer, attempt, max_attempts) ==
    CASE answer = "error" -> "Err: status query failed"
      [] answer = "CommittedSuccess" -> "Ok"
      [] answer = "CommittedFailure" -> "Err: transaction failed"
      [] answer = "Rejected" -> "Err: transaction rejected"
      [] answer \in {"Pending", "Unknown"} ->
            IF attempt + 1 < max_attempts THEN "retry" ELSE "Err: timeout"
      [] OTHER -> "Err: unexpected transaction status"

\* ----------------------------------- POST /proposals/{id}/submit (handler)

\* get_raw_signatures: (public key, signature bytes) of every row, oldest first.
get_raw_signatures(sigs, proposal_id) ==
    LET rows == SigsOf(sigs, proposal_id)
    IN  [i \in DOMAIN rows |->
            [public_key |-> rows[i].signer_public_key,
             signature_bytes |-> rows[i].signature_bytes]]

\* The intent hash of the transaction request s composes (fresh discriminator).
IntentHashOf(s) == s

\* The end of a submit request: the task keeps what it answered.
SubmitReturn(req, result, error) ==
    [SubmitIdle EXCEPT !.pc = "done", !.id = req.id, !.result = result,
                       !.error = error]

\* submit_proposal without its Ready check: the request goes on whatever the
\* status it read.
SubmitStart_unchecked(s) ==
    /\ submit[s].pc = "idle"
    /\ \E id \in ProposalIds :
        submit' = [submit EXCEPT ![s] =
            IF ~Exists(proposals, id)
            THEN SubmitReturn([@ EXCEPT !.id = id], "404", "Proposal not found")
            ELSE [@ EXCEPT !.pc = "sigs", !.id = id]]
    /\ UNCHANGED <<store_vars, ledger_vars, sign, monitor, call>>

\* submit_proposal: store.get (404), the Ready check (400), and the stored
\* partial's bytes.
SubmitStart(s) ==
    /\ submit[s].pc = "idle"
    /\ \E id \in ProposalIds :
        submit' = [submit EXCEPT ![s] =
            IF ~Exists(proposals, id)
            THEN SubmitReturn([@ EXCEPT !.id = id], "404", "Proposal not found")
            ELSE IF proposals[id].status # "Ready"
            THEN SubmitReturn([@ EXCEPT !.id = id], "400", proposals[id].status)
            ELSE [@ EXCEPT !.pc = "sigs", !.id = id]]
    /\ UNCHANGED <<store_vars, ledger_vars, sign, monitor, call>>

\* submit_proposal: get_raw_signatures and reconstruct_signed_partial.
SubmitSigs(s) ==
    /\ submit[s].pc = "sigs"
    /\ submit' = [submit EXCEPT ![s].pc = "epoch",
                                ![s].raw_sigs = get_raw_signatures(signatures, submit[s].id)]
    /\ UNCHANGED <<store_vars, ledger_vars, sign, monitor, call>>

\* submit_proposal: gateway.get_current_epoch (500 on failure) and compose.
SubmitEpoch(s) ==
    /\ submit[s].pc = "epoch"
    /\ \E gateway_ok \in BOOLEAN :
        submit' = [submit EXCEPT ![s] =
            IF gateway_ok
            THEN [@ EXCEPT !.pc = "cas", !.current_epoch = current_epoch]
            ELSE SubmitReturn(@, "500", "Failed to get current epoch")]
    /\ UNCHANGED <<store_vars, ledger_vars, sign, monitor, call>>

\* submit_proposal: transition_status(Ready, Submitting) (500 when lost).
SubmitCas(s) ==
    /\ submit[s].pc = "cas"
    /\ LET res == transition_status(proposals, submit[s].id, "Ready", "Submitting")
       IN  /\ proposals' = res.proposals
           /\ submit' = [submit EXCEPT ![s] =
                 IF res.ok THEN [@ EXCEPT !.pc = "record"]
                 ELSE SubmitReturn(@, "500", "Failed to transition to Submitting")]
    /\ UNCHANGED <<signatures, submission_attempts, ledger_vars, sign, monitor, call>>

\* submit_proposal: record_submission_attempt(.., "submitting", None).
SubmitRecord(s) ==
    /\ submit[s].pc = "record"
    /\ submission_attempts' =
          record_submission_attempt(submission_attempts, submit[s].id,
                                    IntentHashOf(s), "submitting", NoValue)
    /\ submit' = [submit EXCEPT ![s].pc = "gateway"]
    /\ UNCHANGED <<proposals, signatures, ledger_vars, sign, monitor, call>>

\* submit_proposal: gateway.submit_transaction, accepted (Ok(duplicate), the
\* flag only logged) or failing.
SubmitGateway(s) ==
    /\ submit[s].pc = "gateway"
    /\ \/ /\ gateway_txs' =
                Append(gateway_txs,
                       [proposal_id |-> submit[s].id, intent_hash |-> IntentHashOf(s),
                        signatures |-> submit[s].raw_sigs,
                        current_epoch |-> submit[s].current_epoch])
          /\ \E duplicate \in BOOLEAN :
                submit' = [submit EXCEPT ![s].pc = "tx_id",
                                         ![s].duplicate = duplicate]
       \/ /\ submit' = [submit EXCEPT ![s].pc = "fail", ![s].error = "Err: submit failed"]
          /\ UNCHANGED gateway_txs
    /\ UNCHANGED <<store_vars, current_epoch, live_rule, sign, monitor, call>>

\* submit_proposal: the warning for a duplicate (the flag's only use), then
\* update_tx_id (its result is dropped).
SubmitTxId(s) ==
    /\ submit[s].pc = "tx_id"
    /\ proposals' = update_tx_id(proposals, submit[s].id, IntentHashOf(s), s).proposals
    /\ submit' = [submit EXCEPT ![s].pc = "poll", ![s].attempt = 0,
                                ![s].duplicate = FALSE]
    /\ UNCHANGED <<signatures, submission_attempts, ledger_vars, sign, monitor, call>>

\* wait_for_commit's loop without its attempt counter: it polls for as long
\* as the gateway answers Pending or Unknown.
SubmitPoll_unbounded(s) ==
    /\ submit[s].pc = "poll"
    /\ \E answer \in StatusAnswers :
        LET outcome == wait_for_commit(answer, 0, MaxAttempts)
        IN  submit' = [submit EXCEPT ![s] =
                CASE outcome = "retry" -> [@ EXCEPT !.tx_status = answer]
                  [] outcome = "Ok" ->
                        [@ EXCEPT !.pc = "commit", !.tx_status = answer]
                  [] OTHER ->
                        [@ EXCEPT !.pc = "fail", !.tx_status = answer,
                                  !.error = outcome]]
    /\ UNCHANGED <<store_vars, ledger_vars, sign, monitor, call>>

\* submit_proposal: one get_transaction_status of wait_for_commit's loop.
SubmitPoll(s) ==
    /\ submit[s].pc = "poll"
    /\ \E answer \in StatusAnswers :
        LET outcome == wait_for_commit(answer, submit[s].attempt, MaxAttempts)
        IN  submit' = [submit EXCEPT ![s] =
                CASE outcome = "retry" ->
                        [@ EXCEPT !.attempt = @ + 1, !.tx_status = answer]
                  [] outcome = "Ok" ->
                        [@ EXCEPT !.pc = "commit", !.tx_status = answer]
                  [] OTHER ->
                        [@ EXCEPT !.pc = "fail", !.tx_status = answer,
                                  !.error = outcome]]
    /\ UNCHANGED <<store_vars, ledger_vars, sign, monitor, call>>

\* submit_proposal: transition_status(Submitting, Committed), result dropped.
SubmitCommit(s) ==
    /\ submit[s].pc = "commit"
    /\ proposals' =
          transition_status(proposals, submit[s].id, "Submitting", "Committed").proposals
    /\ submit' = [submit EXCEPT ![s] =
          [SubmitReturn(submit[s], "committed", NoValue)
              EXCEPT !.tx_id = IntentHashOf(s)]]
    /\ UNCHANGED <<signatures, submission_attempts, ledger_vars, sign, monitor, call>>

\* submit_proposal: transition_status(Submitting, Failed), result dropped.
SubmitFail(s) ==
    /\ submit[s].pc = "fail"
    /\ proposals' =
          transition_status(proposals, submit[s].id, "Submitting", "Failed").proposals
    /\ submit' = [submit EXCEPT ![s] =
          [SubmitReturn(submit[s], "failed", submit[s].error)
              EXCEPT !.tx_id = IntentHashOf(s)]]
    /\ UNCHANGED <<signatures, submission_attempts, ledger_vars, sign, monitor, call>>

\* ------------------------------------------- validity monitor (one tick)

\* format!("{}...{}", &h[..8], &h[h.len() - 6..])
abbreviate(h) ==
    CASE h = "h1" -> "h1...h1"
      [] h = "h2" -> "h2...h2"
      [] OTHER -> "hx...hx"

Ids(rows) == [i \in DOMAIN rows |-> rows[i].id]

HasSignatures(p) == p.status = "Signing" \/ p.status = "Ready"

\* The tick is over: back to waiting for the interval.
MonitorReturn == monitor' = MonitorIdle

\* Phase 2 moves on to the next proposal of the list, or the tick ends.
MonitorNextProposal ==
    IF Len(monitor.todo) > 1
    THEN monitor' = [monitor EXCEPT !.pc = "sig_hashes", !.todo = Tail(@),
                                    !.removed_signers = << >>, !.k = 1]
    ELSE MonitorReturn

\* Phase 1 is over: phase 2 starts if a proposal left has signatures.
MonitorAfterExpiry(m) ==
    IF m.todo # << >> THEN [m EXCEPT !.pc = "rule"] ELSE MonitorIdle

\* check_proposals: list_active; an empty list ends the tick.
MonitorTick ==
    /\ monitor.pc = "idle"
    /\ LET active == list_active(proposals)
       IN  IF active = << >>
           THEN MonitorReturn
           ELSE monitor' = [monitor EXCEPT !.pc = "epoch", !.todo = active]
    /\ UNCHANGED <<store_vars, ledger_vars, sign, submit, call>>

\* check_proposals whose phase 1 does not drop the expired proposals: phase 2
\* looks at every listed proposal in Signing or Ready.
MonitorEpoch_keeps_expired ==
    /\ monitor.pc = "epoch"
    /\ \E gateway_ok \in BOOLEAN :
        IF ~gateway_ok
        THEN MonitorReturn
        ELSE LET expired == SelectSeq(monitor.todo,
                                      LAMBDA p : current_epoch >= as_u64(p.epoch_max))
                 still_active == monitor.todo
                 m == [monitor EXCEPT !.to_expire = Ids(expired),
                                      !.todo = Ids(SelectSeq(still_active, HasSignatures))]
             IN  monitor' = IF expired # << >>
                            THEN [m EXCEPT !.pc = "expire"]
                            ELSE MonitorAfterExpiry(m)
    /\ UNCHANGED <<store_vars, ledger_vars, sign, submit, call>>

\* check_proposals under a run loop that returns at the first Err: a failed
\* read of the epoch ends the monitor task.
MonitorEpoch_stops_on_error ==
    /\ monitor.pc = "epoch"
    /\ \E gateway_ok \in BOOLEAN :
        IF ~gateway_ok
        THEN monitor' = [MonitorIdle EXCEPT !.pc = "stopped"]
        ELSE LET expired == SelectSeq(monitor.todo,
                                      LAMBDA p : current_epoch >= as_u64(p.epoch_max))
                 still_active == SelectSeq(monitor.todo,
                                           LAMBDA p : ~(current_epoch >= as_u64(p.epoch_max)))
                 m == [monitor EXCEPT !.to_expire = Ids(expired),
                                      !.todo = Ids(SelectSeq(still_active, HasSignatures))]
             IN  monitor' = IF expired # << >>
                            THEN [m EXCEPT !.pc = "expire"]
                            ELSE MonitorAfterExpiry(m)
    /\ UNCHANGED <<store_vars, ledger_vars, sign, submit, call>>

\* check_proposals: get_current_epoch (an Err abandons the tick), then the
\* split of the list into expired proposals and still_active ones, of which
\* phase 2 looks only at those in Signing or Ready.
MonitorEpoch ==
    /\ monitor.pc = "epoch"
    /\ \E gateway_ok \in BOOLEAN :
        IF ~gateway_ok
        THEN MonitorReturn
        ELSE LET expired == SelectSeq(monitor.todo,
                                      LAMBDA p : current_epoch >= as_u64(p.epoch_max))
                 still_active == SelectSeq(monitor.todo,
                                           LAMBDA p : ~(current_epoch >= as_u64(p.epoch_max)))
                 m == [monitor EXCEPT !.to_expire = Ids(expired),
                                      !.todo = Ids(SelectSeq(still_active, HasSignatures))]
             IN  monitor' = IF expired # << >>
                            THEN [m EXCEPT !.pc = "expire"]
                            ELSE MonitorAfterExpiry(m)
    /\ UNCHANGED <<store_vars, ledger_vars, sign, submit, call>>

\* check_proposals, phase 1: mark_expired of the next expired proposal (a
\* failure is logged and the loop goes on).
MonitorExpire ==
    /\ monitor.pc = "expire"
    /\ proposals' = mark_expired(proposals, Head(monitor.to_expire)).proposals
    /\ LET m == [monitor EXCEPT !.to_expire = Tail(@)]
       IN  monitor' = IF m.to_expire # << >> THEN m ELSE MonitorAfterExpiry(m)
    /\ UNCHANGED <<signatures, submission_attempts, ledger_vars, sign, submit, call>>

\* check_proposals, phase 2: read_access_rule (an Err abandons the tick).
MonitorRule ==
    /\ monitor.pc = "rule"
    /\ \E gateway_ok \in BOOLEAN :
        IF gateway_ok
        THEN monitor' = [monitor EXCEPT !.pc = "sig_hashes", !.access_rule = live_rule]
        ELSE MonitorReturn
    /\ UNCHANGED <<store_vars, ledger_vars, sign, submit, call>>

\* check_proposals, phase 2: get_signature_key_hashes of the proposal; the
\* valid signatures whose key hash left the rule are to be invalidated.
MonitorSigHashes ==
    /\ monitor.pc = "sig_hashes"
    /\ LET sig_hashes == get_signature_key_hashes(signatures, Head(monitor.todo))
           gone == SelectSeq(sig_hashes,
                             LAMBDA s : s.is_valid
                                        /\ s.key_hash \notin monitor.access_rule.signers)
       IN  IF gone = << >>
           THEN MonitorNextProposal
           ELSE monitor' = [monitor EXCEPT
                               !.pc = "invalidate", !.k = 1,
                               !.removed_signers = [i \in DOMAIN gone |-> gone[i].key_hash]]
    /\ UNCHANGED <<store_vars, ledger_vars, sign, submit, call>>

\* check_proposals, phase 2: invalidate_signature of the next removed signer.
MonitorInvalidate ==
    /\ monitor.pc = "invalidate"
    /\ signatures' = invalidate_signature(signatures, Head(monitor.todo),
                                          monitor.removed_signers[monitor.k])
    /\ monitor' = IF monitor.k < Len(monitor.removed_signers)
                  THEN [monitor EXCEPT !.k = @ + 1]
                  ELSE [monitor EXCEPT !.pc = "count"]
    /\ UNCHANGED <<proposals, submission_attempts, ledger_vars, sign, submit, call>>

\* check_proposals, phase 2: count_valid_signatures against the threshold.
MonitorCount ==
    /\ monitor.pc = "count"
    /\ IF count_valid_signatures(signatures, Head(monitor.todo))
              < monitor.access_rule.threshold
       THEN monitor' = [monitor EXCEPT !.pc = "mark_invalid"]
       ELSE MonitorNextProposal
    /\ UNCHANGED <<store_vars, ledger_vars, sign, submit, call>>

\* check_proposals, phase 2: mark_invalid with the removed signers' hashes.
MonitorMarkInvalid ==
    /\ monitor.pc = "mark_invalid"
    /\ proposals' =
          mark_invalid(proposals, Head(monitor.todo),
                       InvalidReason([i \in DOMAIN monitor.removed_signers |->
                                         abbreviate(monitor.removed_signers[i])])).proposals
    /\ MonitorNextProposal
    /\ UNCHANGED <<signatures, submission_attempts, ledger_vars, sign, submit, call>>

\* ------------------------------------------------------- the specification

Ledger ==
    \/ AdvanceEpoch
    \/ \E h \in DriftKeyHashes : RemoveSigner(h)
    \/ \E h \in DriftKeyHashes : AddSigner(h)

CreateProposal ==
    \E expiry_epoch \in {current_epoch + 1} : create_proposal(expiry_epoch)

SignProposal ==
    \E r \in DOMAIN sign :
        \/ SignStart(r)
        \/ SignGet(r)
        \/ SignInsert(r)
        \/ SignCount(r)
        \/ SignToSigning(r)
        \/ SignToReady(r)
        \/ SignStatus(r)

SubmitProposal ==
    \E s \in DOMAIN submit :
        \/ SubmitStart(s)
        \/ SubmitSigs(s)
        \/ SubmitEpoch(s)
        \/ SubmitCas(s)
        \/ SubmitRecord(s)
        \/ SubmitGateway(s)
        \/ SubmitTxId(s)
        \/ SubmitPoll(s)
        \/ SubmitCommit(s)
        \/ SubmitFail(s)

Monitor ==
    \/ MonitorTick
    \/ MonitorEpoch
    \/ MonitorExpire
    \/ MonitorRule
    \/ MonitorSigHashes
    \/ MonitorInvalidate
    \/ MonitorCount
    \/ MonitorMarkInvalid

Next ==
    \/ Ledger
    \/ CreateProposal
    \/ SignProposal
    \/ SubmitProposal
    \/ Monitor

Spec == Init /\ [][Next]_vars

\* ------------------------------------------ runs of the sign handler alone

\* Sign requests only, over a rule and an epoch that do not change: several
\* requests in flight at once on the proposal.
InitSign ==
    /\ proposals = << >>
    /\ signatures = << >>
    /\ submission_attempts = << >>
    /\ current_epoch = 0
    /\ live_rule \in [signers : {RuleKeyHashes}, threshold : 1..MaxThreshold]
    /\ gateway_txs = << >>
    /\ sign = [r \in SignOnlyReqs |-> SignIdle]
    /\ submit = [r \in SubmitReqs |-> SubmitIdle]
    /\ monitor = MonitorIdle
    /\ call = NoCall

NextSign ==
    \/ CreateProposal
    \/ SignProposal

SignSpec == InitSign /\ [][NextSign]_vars

\* No sign request other than r is between its arrival and its response.
NoneElseInFlight(r) ==
    \A q \in DOMAIN sign \ {r} : sign[q].pc \in {"idle", "done"}

\* Sign requests one after the other: a request arrives only after the
\* previous one was answered.
NextSeq ==
    \/ CreateProposal
    \/ \E r \in DOMAIN sign :
        /\ NoneElseInFlight(r)
        /\ \/ SignStart(r)
           \/ SignGet(r)
           \/ SignInsert(r)
           \/ SignCount(r)
           \/ SignToSigning(r)
           \/ SignToReady(r)
           \/ SignStatus(r)

SeqSpec == InitSign /\ [][NextSeq]_vars

\* ------------------------------------------- sign requests of any content

\* The task that serves the requests of arbitrary content, one at a time.
AnyReqs == {1}

\* A sign request with any partial a client can post.
SignStartAny(r) ==
    \E id \in ProposalIds, partial \in Partials : sign_proposal(r, id, partial)

\* The task has answered and takes the next request.
SignNextRequest(r) ==
    /\ sign[r].pc = "done"
    /\ sign' = [sign EXCEPT ![r] = SignIdle]
    /\ UNCHANGED <<store_vars, ledger_vars, submit, monitor, call>>

InitAny ==
    /\ proposals = << >>
    /\ signatures = << >>
    /\ submission_attempts = << >>
    /\ current_epoch = 0
    /\ live_rule \in [signers : {RuleKeyHashes}, threshold : 1..MaxThreshold]
    /\ gateway_txs = << >>
    /\ sign = [r \in AnyReqs |-> SignIdle]
    /\ submit = [r \in SubmitReqs |-> SubmitIdle]
    /\ monitor = MonitorIdle
    /\ call = NoCall

SignAny ==
    \E r \in DOMAIN sign :
        \/ SignStartAny(r)
        \/ SignGet(r)
        \/ SignInsert(r)
        \/ SignCount(r)
        \/ SignToSigning(r)
        \/ SignToReady(r)
        \/ SignStatus(r)
        \/ SignNextRequest(r)

\* Requests of any content, one at a time, while submit requests, the monitor
\* and the ledger run.
NextAny ==
    \/ Ledger
    \/ CreateProposal
    \/ SignAny
    \/ SubmitProposal
    \/ Monitor

AnySpec == InitAny /\ [][NextAny]_vars

\* ------------------------------------------------ the store called directly

\* ProposalStore::transition_status called with any arguments; the call, the
\* table before and after it, and its result are kept.
StoreTransition(id, from, to) ==
    /\ LET res == transition_status(proposals, id, from, to)
       IN  /\ proposals' = res.proposals
           /\ call' = [op |-> "transition_status", id |-> id, from |-> from,
                       to |-> to, before |-> proposals,
                       after |-> res.proposals, ok |-> res.ok]
    /\ UNCHANGED <<signatures, submission_attempts, ledger_vars, sign, submit, monitor>>

NextStore ==
    \/ CreateProposal
    \/ \E id \in ProposalIds, from \in ProposalStatus, to \in ProposalStatus :
          StoreTransition(id, from, to)

StoreSpec == Init /\ [][NextStore]_vars

\* ------------------------------------------------------------- properties

\* The edges of the status graph.
StatusEdges ==
    { <<"Created", "Signing">>, <<"Created", "Expired">>, <<"Created", "Invalid">>,
      <<"Signing", "Ready">>, <<"Signing", "Expired">>, <<"Signing", "Invalid">>,
      <<"Ready", "Submitting">>, <<"Ready", "Expired">>, <<"Ready", "Invalid">>,
      <<"Submitting", "Committed">>, <<"Submitting", "Failed">> }

\* C1: a proposal starts in Created, and no step of any operation (sign,
\* submit, monitor, in any interleaving) changes its status other than along
\* one of the eleven edges Created->{Signing,Expired,Invalid},
\* Signing->{Ready,Expired,Invalid}, Ready->{Submitting,Expired,Invalid},
\* Submitting->{Committed,Failed}.
C1_StatusFollowsEdges ==
    [][ /\ \A id \in DOMAIN proposals' \ DOMAIN proposals :
              proposals'[id].status = "Created"
        /\ \A id \in DOMAIN proposals :
              proposals'[id].status # proposals[id].status
                  => <<proposals[id].status, proposals'[id].status>> \in StatusEdges
      ]_vars

\* A proposal went all the way to Committed.
C1_Witness ==
    \E id \in DOMAIN proposals : proposals[id].status = "Committed"

\* C2: once a proposal is Committed, Failed, Expired or Invalid, no step
\* changes its status, tx_id, submitted_at or invalid_reason.
C2_TerminalRowFrozen ==
    [][ \A id \in DOMAIN proposals :
            proposals[id].status \in {"Committed", "Failed", "Expired", "Invalid"}
                => /\ proposals'[id].status = proposals[id].status
                   /\ proposals'[id].tx_id = proposals[id].tx_id
                   /\ proposals'[id].submitted_at = proposals[id].submitted_at
                   /\ proposals'[id].invalid_reason = proposals[id].invalid_reason
      ]_vars

\* A sign request held the status Created while the monitor expired the
\* proposal, then tried Created->Signing on the Expired row and lost.
C2_Witness ==
    \E id \in DOMAIN proposals, r \in DOMAIN sign :
        /\ proposals[id].status = "Expired"
        /\ signatures = << [proposal_id |-> id, signer_public_key |-> "pk1",
                            signer_key_hash |-> "h1", signature_bytes |-> "genuine",
                            is_valid |-> TRUE] >>
        /\ sign[r].pc = "done" /\ sign[r].id = id
        /\ sign[r].result = "not found or not in Created status"

\* The status of row id in table props ("null" when there is no such row).
StoredStatus(props, id) ==
    IF id \in DOMAIN props THEN props[id].status ELSE NoValue

\* C3: transition_status(id, from, to) succeeds exactly when from -> to is an
\* edge of the status graph and the stored status of the row equals from when
\* the update runs; it then sets the status to to, and otherwise fails and
\* leaves the row (the whole table) as it was.
C3_TransitionStatusIsCas ==
    call.op = "transition_status" =>
        LET wins == /\ <<call.from, call.to>> \in StatusEdges
                    /\ StoredStatus(call.before, call.id) = call.from
        IN  /\ call.ok = wins
            /\ wins => call.after = [call.before EXCEPT ![call.id].status = call.to]
            /\ ~wins => call.after = call.before

\* A call along an edge of the graph lost: the stored status had moved on.
C3_Witness ==
    /\ call.op = "transition_status"
    /\ <<call.from, call.to>> = <<"Ready", "Submitting">>
    /\ StoredStatus(call.before, call.id) = "Submitting"
    /\ ~call.ok

\* No two signature rows share (proposal_id, signer_key_hash).
UniqueSignatureRows ==
    \A i, j \in DOMAIN signatures :
        /\ signatures[i].proposal_id = signatures[j].proposal_id
        /\ signatures[i].signer_key_hash = signatures[j].signer_key_hash
        => i = j

\* The signer of request req has a signature row on the request's proposal.
SignerHasRow(req) ==
    \E i \in DOMAIN signatures :
        /\ signatures[i].proposal_id = req.id
        /\ signatures[i].signer_key_hash = compute_key_hash(req.partial.public_key)

\* This step is a step of sign request r, taken before the request's own
\* INSERT, while the request's signer already has a row (the rule was read).
RepeatSignerStep(r) ==
    /\ sign'[r] # sign[r]
    /\ sign[r].pc \in {"idle", "get", "insert"}
    /\ sign'[r].result # "Failed to read access rule"
    /\ SignerHasRow(IF sign[r].pc = "idle" THEN sign'[r] ELSE sign[r])

\* C4 as stated: at most one signature row per (proposal_id, signer_key_hash)
\* at every point, and a sign request by a signer who already has a row
\* fails with 'already signed', changing neither the signature rows nor the
\* proposal status.
C4_RepeatSignerAlreadySigned ==
    /\ []UniqueSignatureRows
    /\ [][ \A r \in DOMAIN sign :
              RepeatSignerStep(r) =>
                  /\ signatures' = signatures
                  /\ proposals' = proposals
                  /\ sign'[r].pc = "done" => sign'[r].result = "already signed"
          ]_vars

\* C4 amended: at most one signature row per (proposal_id, signer_key_hash)
\* at every point; a sign request by a signer who already has a row adds no
\* row, changes no status and never succeeds: it fails with 'already signed'
\* when it reaches the INSERT, and before that with the error of the check
\* it fails first (signer no longer in the rule, status not Created/Signing).
C4_RepeatSignerRejected ==
    /\ []UniqueSignatureRows
    /\ [][ \A r \in DOMAIN sign :
              RepeatSignerStep(r) =>
                  /\ signatures' = signatures
                  /\ proposals' = proposals
                  /\ sign'[r].pc \in {"get", "insert", "done"}
                  /\ sign[r].pc = "insert" =>
                        sign'[r].pc = "done" /\ sign'[r].result = "already signed"
                  /\ sign[r].pc = "get" /\ sign'[r].pc = "done" =>
                        sign'[r].result = "status: not Created or Signing"
                  /\ sign[r].pc = "idle" /\ sign'[r].pc = "done" =>
                        sign'[r].result = "not in the current access rule"
          ]_vars

\* Two concurrent requests carried the same signer: one inserted the row and
\* is still in flight, the other was answered 'already signed'.
C4_Witness ==
    \E r, q \in DOMAIN sign :
        /\ r # q
        /\ sign[r].pc = "done" /\ sign[r].result = "already signed"
        /\ sign[q].pc = "count"
        /\ sign[q].id = sign[r].id /\ sign[q].partial = sign[r].partial
        /\ UniqueSignatureRows /\ Len(signatures) = 1

\* C5: forged signatures are rejected: every signature row holds bytes that
\* are a valid signature, by the public key the row carries, over the
\* proposal's stored subintent hash; a partial with the expected hash and an
\* authorized signer's key but a signature not made with that signer's
\* private key creates no row.
C5_NoForgedSignatureRow ==
    \A i \in DOMAIN signatures : signatures[i].signature_bytes = "genuine"

\* This step is the arrival of sign request r for a proposal that exists,
\* and the gateway returned the live access rule.
SignArrival(r) ==
    /\ sign[r].pc = "idle" /\ sign'[r].pc # "idle"
    /\ sign'[r].id \in DOMAIN proposals
    /\ sign'[r].result # "Failed to read access rule"

\* The request was rejected with this error and nothing was stored.
RejectedWith(r, error) ==
    /\ sign'[r].pc = "done" /\ sign'[r].result = error
    /\ signatures' = signatures
    /\ proposals' = proposals

\* The partial that arrives with request r re-derives a hash other than the
\* subintent hash stored with the proposal.
HashDiffers(r) ==
    <<"subtxid", sign'[r].partial.intent>> # proposals[sign'[r].id].subintent_hash

\* C9: a sign request whose partial re-derives a hash other than the stored
\* subintent hash is rejected with 'different subintent hash', and one whose
\* (Ed25519) signer's key hash is absent from the live access rule is
\* rejected with 'not in the current access rule', whatever the proposal's
\* status (Ready included: the hash error comes before the status error);
\* neither creates a signature row nor changes the status.
C9_WrongHashOrSignerRejected ==
    [][ \A r \in DOMAIN sign :
          SignArrival(r) =>
            /\ HashDiffers(r) => RejectedWith(r, "different subintent hash")
            /\ ( /\ ~HashDiffers(r)
                 /\ sign'[r].partial.kind = "Ed25519"
                 /\ compute_key_hash(sign'[r].partial.public_key)
                        \notin live_rule.signers )
               => RejectedWith(r, "not in the current access rule")
      ]_vars

\* A partial over another intent was posted for a Ready proposal and was
\* answered with the hash error.
C9_Witness ==
    \E r \in DOMAIN sign, id \in DOMAIN proposals :
        /\ proposals[id].status = "Ready"
        /\ sign[r].pc = "done" /\ sign[r].id = id
        /\ sign[r].partial.intent # id
        /\ sign[r].result = "different subintent hash"

\* A signer outside the live rule posted a partial over the right intent for
\* a proposal that was Submitting, and was answered with the rule error.
C9_WitnessSigner ==
    \E r \in DOMAIN sign, id \in DOMAIN proposals :
        /\ proposals[id].status = "Submitting"
        /\ sign[r].pc = "done" /\ sign[r].id = id
        /\ sign[r].partial.intent = id
        /\ sign[r].result = "not in the current access rule"

\* Every sign request has been answered or has not arrived.
AllSignReturned == \A r \in DOMAIN sign : sign[r].pc \in {"idle", "done"}

\* The position of the row of request req's signer among the rows of the
\* request's proposal (1 for the first admitted signature).
RowPosition(req) ==
    LET rows == SigsOf(signatures, req.id)
    IN  CHOOSE k \in DOMAIN rows :
            rows[k].signer_key_hash = compute_key_hash(req.partial.public_key)

\* C6: with a fixed access rule of threshold t and sign requests processed
\* one at a time on a newly created proposal, the status is Created before
\* the first admitted signature, Signing after the k-th for 1 <= k < t and
\* Ready after the t-th, and the SignatureStatus returned by the k-th
\* admitted request reports collected = k and remaining = t - k.
C6_SequentialSigning ==
    \A id \in DOMAIN proposals :
        LET t == live_rule.threshold
            n == Len(SigsOf(signatures, id))
        IN  /\ AllSignReturned =>
                  /\ n <= t
                  /\ n = 0 => proposals[id].status = "Created"
                  /\ (1 <= n /\ n < t) => proposals[id].status = "Signing"
                  /\ n = t => proposals[id].status = "Ready"
            /\ \A r \in DOMAIN sign :
                  (sign[r].pc = "done" /\ sign[r].id = id /\ sign[r].result = "ok")
                      => /\ sign[r].response.collected = RowPosition(sign[r])
                         /\ sign[r].response.threshold = t
                         /\ sign[r].response.remaining = t - RowPosition(sign[r])

\* Under a threshold of two, two signers signed one after the other: the
\* second was answered collected = 2, remaining = 0 and the proposal is Ready.
C6_Witness ==
    \E id \in DOMAIN proposals, r \in DOMAIN sign :
        /\ live_rule.threshold = 2
        /\ AllSignReturned
        /\ proposals[id].status = "Ready"
        /\ sign[r].pc = "done" /\ sign[r].id = id /\ sign[r].result = "ok"
        /\ sign[r].response = [collected |-> 2, threshold |-> 2, remaining |-> 0]

\* The sign requests that arrived carry pairwise distinct signers.
DistinctSigners ==
    \A r, q \in DOMAIN sign :
        (r # q /\ sign[r].pc # "idle" /\ sign[q].pc # "idle")
            => sign[r].partial.public_key # sign[q].partial.public_key

\* C7: with concurrent sign requests by distinct authorized signers under an
\* unchanged access rule (no expiry, no drift), once all requests have
\* returned, a proposal holding at least threshold signature rows is Ready.
C7_ThresholdMetIsReady ==
    \A id \in DOMAIN proposals :
        ( /\ AllSignReturned
          /\ DistinctSigners
          /\ count_signatures(signatures, id) >= live_rule.threshold )
        => proposals[id].status = "Ready"

\* C8: when sign requests by distinct authorized signers run concurrently on
\* a Created proposal, the request that loses the Created->Signing
\* compare-and-set does not fail there: it goes on (and returns success).
C8_CasLoserContinues ==
    [][ \A r \in DOMAIN sign :
            sign[r].pc = "to_signing" => sign'[r].pc # "done" ]_vars

\* C10: a signature row is added only while the proposal is Created or
\* Signing: a proposal that is Ready, Submitting, Committed, Failed, Expired
\* or Invalid never gains a signature row, in any interleaving of sign
\* requests, submit requests and monitor ticks.
C10_RowsOnlyWhileCollecting ==
    [][ \A id \in DOMAIN proposals :
            count_signatures(signatures', id) > count_signatures(signatures, id)
                => proposals[id].status \in {"Created", "Signing"} ]_vars

\* This step is the monitor's mark_expired of the proposal at the head of
\* the list of proposals for which the tick read current_epoch >= epoch_max.
MonitorExpireStep == monitor.pc = "expire" /\ monitor' # monitor

\* C11 as stated: after a tick that read current_epoch >= p.epoch_max for a
\* proposal p it listed as active, p is Expired with invalid_reason
\* 'Proposal epoch window has passed'; a proposal with current_epoch <
\* epoch_max is not expired.
C11_ListedActiveIsExpired ==
    /\ [][ MonitorExpireStep =>
              /\ proposals'[Head(monitor.to_expire)].status = "Expired"
              /\ proposals'[Head(monitor.to_expire)].invalid_reason
                    = <<"Proposal epoch window has passed">> ]_vars
    /\ [](\A id \in DOMAIN proposals :
              proposals[id].status = "Expired"
                  => current_epoch >= proposals[id].epoch_max)

\* C11 amended: after a tick that read current_epoch >= p.epoch_max for a
\* proposal p it listed as active, p is Expired with invalid_reason
\* 'Proposal epoch window has passed' if p is still Created, Signing or Ready
\* when the tick's mark_expired runs; if a submit request has meanwhile moved
\* p out of Ready, the tick leaves p as it is.  A proposal with
\* current_epoch < epoch_max is not expired.
C11_StillActiveIsExpired ==
    /\ [][ MonitorExpireStep =>
              IF proposals[Head(monitor.to_expire)].status
                    \in {"Created", "Signing", "Ready"}
              THEN /\ proposals'[Head(monitor.to_expire)].status = "Expired"
                   /\ proposals'[Head(monitor.to_expire)].invalid_reason
                         = <<"Proposal epoch window has passed">>
              ELSE proposals' = proposals ]_vars
    /\ [](\A id \in DOMAIN proposals :
              proposals[id].status = "Expired"
                  => current_epoch >= proposals[id].epoch_max)

\* The monitor expired a proposal that had a signature (Signing or Ready).
C11_Witness ==
    \E id \in DOMAIN proposals :
        /\ proposals[id].status = "Expired"
        /\ proposals[id].invalid_reason = <<"Proposal epoch window has passed">>
        /\ count_signatures(signatures, id) > 0
        /\ monitor.pc = "idle"

\* This step ends a tick of the monitor that ran to its end (Ok): every
\* gateway read it made was answered.
TickCompletes ==
    /\ monitor.pc \notin {"idle", "rule"}
    /\ monitor'.pc = "idle"
    /\ monitor.pc = "epoch" =>
          \A i \in DOMAIN monitor.todo :
              /\ ~(current_epoch >= monitor.todo[i].epoch_max)
              /\ ~HasSignatures(monitor.todo[i])

\* Signer key hash h is absent from the live access rule, and from the rule
\* the tick read if it read one.
AbsentAtTick(h) ==
    /\ h \notin live_rule.signers
    /\ monitor.access_rule # NoRule => h \notin monitor.access_rule.signers

\* The set of elements of a sequence.
Range(seq) == {seq[i] : i \in DOMAIN seq}

\* C12: after a tick completes with signer S absent from the live
\* access rule, every signature by S on every active proposal has is_valid =
\* false.
C12_AbsentSignerInvalidated ==
    [][ TickCompletes =>
          \A i \in DOMAIN signatures' :
              ( /\ AbsentAtTick(signatures'[i].signer_key_hash)
                /\ proposals'[signatures'[i].proposal_id].status
                      \in {"Created", "Signing", "Ready"} )
              => ~signatures'[i].is_valid ]_vars

\* What a tick does guarantee about signatures: for every proposal it
\* listed in Signing or Ready and did not expire, it sets is_valid = false on
\* every signature row it read as valid whose signer is absent from the
\* access rule it read; it changes no other row, and rows inserted after its
\* read, or on a proposal it listed as Created, are left as they are.
TickInvalidatesReadRows ==
    /\ [][ (monitor.pc = "sig_hashes" /\ monitor' # monitor) =>
              LET rows == SigsOf(signatures, Head(monitor.todo))
                  gone == {rows[i].signer_key_hash : i \in
                              {j \in DOMAIN rows :
                                  /\ rows[j].is_valid
                                  /\ rows[j].signer_key_hash
                                        \notin monitor.access_rule.signers}}
              IN  IF gone = {}
                  THEN monitor'.pc # "invalidate"
                  ELSE /\ monitor'.pc = "invalidate"
                       /\ Range(monitor'.removed_signers) = gone ]_vars
    /\ [](monitor.pc \in {"count", "mark_invalid"} =>
              \A i \in DOMAIN signatures :
                  ( /\ signatures[i].proposal_id = Head(monitor.todo)
                    /\ signatures[i].signer_key_hash
                          \in Range(monitor.removed_signers) )
                  => ~signatures[i].is_valid)
    /\ [][ \A i \in DOMAIN signatures :
              signatures'[i].is_valid # signatures[i].is_valid =>
                  /\ ~signatures'[i].is_valid
                  /\ monitor.pc = "invalidate"
                  /\ signatures[i].proposal_id = Head(monitor.todo)
                  /\ signatures[i].signer_key_hash
                        \notin monitor.access_rule.signers ]_vars


\* The number of signature rows of proposal id with is_valid = TRUE.
ValidRows(sigs, id) ==
    Cardinality({i \in DOMAIN sigs : sigs[i].proposal_id = id /\ sigs[i].is_valid})

MonitorStep == monitor' # monitor

\* C14: a step of a validity-monitor tick changes a proposal's status only
\* to Expired or Invalid and a signature's is_valid only to FALSE, and
\* changes nothing else in the store; and an Invalid proposal stays Invalid,
\* also when the removed signer is back in the live access rule.
C14_MonitorOnlyDemotes ==
    /\ [][ MonitorStep =>
             /\ DOMAIN proposals' = DOMAIN proposals
             /\ \A id \in DOMAIN proposals :
                   /\ proposals'[id].status # proposals[id].status =>
                          proposals'[id].status \in {"Expired", "Invalid"}
                   /\ proposals'[id].status \notin {"Expired", "Invalid"} =>
                          proposals'[id] = proposals[id]
                   /\ [proposals'[id] EXCEPT !.status = "", !.invalid_reason = <<>>]
                        = [proposals[id] EXCEPT !.status = "", !.invalid_reason = <<>>]
             /\ DOMAIN signatures' = DOMAIN signatures
             /\ \A i \in DOMAIN signatures :
                   /\ signatures'[i].is_valid => signatures[i].is_valid
                   /\ [signatures'[i] EXCEPT !.is_valid = FALSE]
                        = [signatures[i] EXCEPT !.is_valid = FALSE]
             /\ submission_attempts' = submission_attempts ]_vars
    /\ [][ \A id \in DOMAIN proposals :
             proposals[id].status = "Invalid" => proposals'[id] = proposals[id] ]_vars

\* The monitor made the proposal Invalid and is idle again, the signer whose
\* signature it invalidated is back in the live rule, and the proposal's
\* signature rows, counted all, meet the live threshold: the next tick finds
\* no active proposal and leaves it Invalid.
C14_Witness ==
    /\ monitor.pc = "idle"
    /\ list_active(proposals) = << >>
    /\ \E id \in DOMAIN proposals :
          /\ proposals[id].status = "Invalid"
          /\ \E i \in DOMAIN signatures :
                /\ signatures[i].proposal_id = id
                /\ ~signatures[i].is_valid
                /\ signatures[i].signer_key_hash \in live_rule.signers
          /\ count_signatures(signatures, id) >= live_rule.threshold
          /\ ValidRows(signatures, id) < live_rule.threshold

\* Submit request s has won the Ready -> Submitting compare-and-set.
CasWon(s) ==
    \/ submit[s].pc \in {"record", "gateway", "tx_id", "poll", "commit", "fail"}
    \/ submit[s].pc = "done" /\ submit[s].result \in {"committed", "failed"}

\* The proposal the tick's next store write is aimed at (0: none).
MonitorTarget ==
    CASE monitor.pc = "expire" -> Head(monitor.to_expire)
      [] monitor.pc \in {"invalidate", "count", "mark_invalid"} -> Head(monitor.todo)
      [] OTHER -> 0

\* C15: once a submit request has won the Ready -> Submitting
\* compare-and-set, no step of a validity-monitor tick changes the proposal's
\* status or invalid_reason, also when the tick listed the proposal as active
\* before the transition; and when the monitor has marked the proposal
\* Expired or Invalid first, the submit's compare-and-set fails (500), the
\* proposal is left as marked and nothing is ever sent to the gateway for it.
C15_SubmitExcludesMonitor ==
    /\ [][ \A s \in SubmitReqs :
             (CasWon(s) /\ MonitorStep) =>
                 /\ proposals'[submit[s].id].status = proposals[submit[s].id].status
                 /\ proposals'[submit[s].id].invalid_reason
                       = proposals[submit[s].id].invalid_reason ]_vars
    /\ [][ \A s \in SubmitReqs :
             ( /\ submit[s].pc = "cas"
               /\ proposals[submit[s].id].status \in {"Expired", "Invalid"}
               /\ submit'[s] # submit[s] ) =>
                 /\ submit'[s].pc = "done"
                 /\ submit'[s].result = "500"
                 /\ submit'[s].error = "Failed to transition to Submitting"
                 /\ proposals' = proposals
                 /\ gateway_txs' = gateway_txs ]_vars
    /\ [](\A id \in DOMAIN proposals :
             proposals[id].status \in {"Expired", "Invalid"} =>
                 \A t \in DOMAIN gateway_txs : gateway_txs[t].proposal_id # id)

\* A tick that listed the proposal as active is about to write to it while a
\* submit request has already moved it to Submitting.
C15_Witness ==
    \E s \in SubmitReqs :
        /\ CasWon(s)
        /\ MonitorTarget = submit[s].id
        /\ monitor.pc \in {"expire", "mark_invalid"}
        /\ proposals[submit[s].id].status = "Submitting"

\* The monitor marked the proposal first: the submit request that had read it
\* as Ready lost its compare-and-set and sent nothing.
C15_WitnessCasLost ==
    \E s \in SubmitReqs :
        /\ submit[s].pc = "done"
        /\ submit[s].error = "Failed to transition to Submitting"
        /\ proposals[submit[s].id].status \in {"Expired", "Invalid"}
        /\ gateway_txs = << >>

\* ------------------------------------- several submit requests on a proposal

\* The submit requests that may be in flight at once or follow one another.
RaceReqs == {1, 2, 3}

\* As Init, with the submit requests of RaceReqs.
InitRace ==
    /\ proposals = << >>
    /\ signatures = << >>
    /\ submission_attempts = << >>
    /\ current_epoch = 0
    /\ live_rule \in [signers : {RuleKeyHashes}, threshold : 1..MaxThreshold]
    /\ gateway_txs = << >>
    /\ sign = [r \in SignReqs |-> SignIdle]
    /\ submit = [r \in RaceReqs |-> SubmitIdle]
    /\ monitor = MonitorIdle
    /\ call = NoCall

\* Sign and submit requests over a rule and an epoch that do not change.
NextRace ==
    \/ CreateProposal
    \/ SignProposal
    \/ SubmitProposal

RaceSpec == InitRace /\ [][NextRace]_vars

\* The submit requests that have made (or are making) the gateway submit call
\* for proposal id.
GatewayCallers(id) ==
    {s \in DOMAIN submit :
        /\ submit[s].id = id
        /\ \/ submit[s].pc \in {"gateway", "tx_id", "poll", "commit", "fail"}
           \/ submit[s].pc = "done" /\ submit[s].result \in {"committed", "failed"}}

\* C16: for each proposal at most one submit request wins the
\* Ready -> Submitting compare-and-set and at most one makes the gateway
\* submit call (one submission-attempt row, one transaction at the gateway
\* at most); every other submit request is answered 404, 400 or 500 without
\* having called the gateway.
C16_OneSubmitter ==
    \A id \in ProposalIds :
        /\ Cardinality({s \in DOMAIN submit : submit[s].id = id /\ CasWon(s)}) <= 1
        /\ Cardinality(GatewayCallers(id)) <= 1
        /\ Cardinality({a \in DOMAIN submission_attempts :
                            submission_attempts[a].proposal_id = id}) <= 1
        /\ Cardinality({t \in DOMAIN gateway_txs :
                            gateway_txs[t].proposal_id = id}) <= 1
        /\ \A s \in DOMAIN submit :
              (submit[s].pc = "done" /\ submit[s].id = id /\ ~CasWon(s)) =>
                  /\ submit[s].result \in {"404", "400", "500"}
                  /\ \A t \in DOMAIN gateway_txs :
                        gateway_txs[t].intent_hash # IntentHashOf(s)
                  /\ \A a \in DOMAIN submission_attempts :
                        submission_attempts[a].tx_hash # IntentHashOf(s)

\* Two submit requests read the proposal as Ready; one won the compare-and-set
\* and called the gateway, the other lost it and was answered 500.
C16_Witness ==
    \E s, q \in DOMAIN submit :
        /\ s # q
        /\ submit[s].id = submit[q].id
        /\ submit[s].pc = "done" /\ submit[s].result \in {"committed", "failed"}
        /\ submit[q].pc = "done"
        /\ submit[q].error = "Failed to transition to Submitting"

\* Submit request s arrives: its handler reads the proposal.
SubmitArrival(s) == submit[s].pc = "idle" /\ submit'[s] # submit[s]

\* C17: a submit request that reads a proposal whose status is not Ready is
\* answered 400 naming that status, and changes nothing: the proposal
\* (status, tx_id), the signatures and the submission attempts are as
\* before, nothing is sent to the gateway, and the request does nothing
\* after its answer.
C17_NotReadyIs400 ==
    /\ [][ \A s \in DOMAIN submit :
             ( /\ SubmitArrival(s)
               /\ Exists(proposals, submit'[s].id)
               /\ proposals[submit'[s].id].status # "Ready" ) =>
                 /\ submit'[s].pc = "done"
                 /\ submit'[s].result = "400"
                 /\ submit'[s].error = proposals[submit'[s].id].status
                 /\ proposals' = proposals
                 /\ signatures' = signatures
                 /\ submission_attempts' = submission_attempts
                 /\ gateway_txs' = gateway_txs ]_vars
    /\ [][ \A s \in DOMAIN submit :
             submit[s].pc = "done" => submit'[s] = submit[s] ]_vars
    /\ [](\A s \in DOMAIN submit :
             submit[s].result = "400" =>
                 /\ \A t \in DOMAIN gateway_txs :
                       gateway_txs[t].intent_hash # IntentHashOf(s)
                 /\ \A a \in DOMAIN submission_attempts :
                       submission_attempts[a].tx_hash # IntentHashOf(s))

\* A submit request for a proposal that is still collecting signatures was
\* answered 400 naming Signing, and the proposal is as it was.
C17_Witness ==
    \E s \in DOMAIN submit :
        /\ submit[s].pc = "done"
        /\ submit[s].result = "400"
        /\ submit[s].error = "Signing"
        /\ proposals[submit[s].id].status = "Signing"
        /\ proposals[submit[s].id].tx_id = 0
        /\ submission_attempts = << >>
        /\ gateway_txs = << >>

\* The errors with which submit_proposal answers "failed": the gateway's
\* refusal of the submission and the errors of wait_for_commit.
SubmitErrors ==
    {"Err: submit failed", "Err: status query failed", "Err: transaction failed",
     "Err: transaction rejected", "Err: timeout",
     "Err: unexpected transaction status"}

\* Submit request s takes a step.
SubmitStep(s) == submit'[s] # submit[s]

\* C18: a proposal becomes Committed only by the step of a submit request
\* whose poll of the gateway answered CommittedSuccess, and that request
\* responds {committed, tx_id}; a request whose gateway submit call failed,
\* or whose poll ended with CommittedFailure, Rejected or a timeout (all
\* answers Pending or Unknown), moves the proposal to Failed and responds
\* {failed, tx_id, error}.
C18_CommittedOnlyOnSuccess ==
    /\ [][ \A id \in DOMAIN proposals :
             (proposals[id].status # "Committed"
                 /\ proposals'[id].status = "Committed") =>
                 \E s \in DOMAIN submit :
                     /\ submit[s].id = id
                     /\ submit[s].pc = "commit"
                     /\ submit[s].tx_status = "CommittedSuccess"
                     /\ submit'[s].pc = "done"
                     /\ submit'[s].result = "committed"
                     /\ submit'[s].tx_id = IntentHashOf(s)
                     /\ submit'[s].error = NoValue ]_vars
    /\ [][ \A s \in DOMAIN submit :
             /\ (submit[s].pc = "poll" /\ SubmitStep(s)) =>
                   /\ submit'[s].pc = "commit" <=>
                          submit'[s].tx_status = "CommittedSuccess"
                   /\ submit'[s].tx_status \in {"CommittedFailure", "Rejected"} =>
                          submit'[s].pc = "fail"
                   /\ ( /\ submit'[s].tx_status \in {"Pending", "Unknown"}
                        /\ submit[s].attempt + 1 >= MaxAttempts ) =>
                          submit'[s].pc = "fail" /\ submit'[s].error = "Err: timeout"
             /\ ( /\ submit[s].pc = "gateway" /\ SubmitStep(s)
                  /\ gateway_txs' = gateway_txs ) =>
                   submit'[s].pc = "fail"
             /\ (submit[s].pc = "fail" /\ SubmitStep(s)) =>
                   /\ proposals[submit[s].id].status = "Submitting"
                   /\ proposals'[submit[s].id].status = "Failed"
                   /\ submit'[s].pc = "done"
                   /\ submit'[s].result = "failed"
                   /\ submit'[s].tx_id = IntentHashOf(s)
                   /\ submit'[s].error = submit[s].error
                   /\ submit[s].error \in SubmitErrors
             /\ (submit[s].pc = "commit" /\ SubmitStep(s)) =>
                   /\ proposals[submit[s].id].status = "Submitting"
                   /\ proposals'[submit[s].id].status = "Committed" ]_vars
    /\ [](\A s \in DOMAIN submit :
             /\ submit[s].result = "committed" =>
                   proposals[submit[s].id].status = "Committed"
             /\ submit[s].result = "failed" =>
                   proposals[submit[s].id].status = "Failed")

\* A request was answered {committed, tx_id} and the proposal is Committed
\* with that tx_id stored.
C18_Witness ==
    \E s \in DOMAIN submit :
        /\ submit[s].result = "committed"
        /\ submit[s].tx_id = IntentHashOf(s)
        /\ proposals[submit[s].id].status = "Committed"
        /\ proposals[submit[s].id].tx_id = IntentHashOf(s)

\* A request whose poll ran out of attempts was answered {failed, tx_id,
\* timeout} and the proposal is Failed.
C18_WitnessTimeout ==
    \E s \in DOMAIN submit :
        /\ submit[s].result = "failed"
        /\ submit[s].error = "Err: timeout"
        /\ submit[s].tx_id = IntentHashOf(s)
        /\ proposals[submit[s].id].status = "Failed"

\* A request whose gateway submit call failed was answered {failed, tx_id,
\* error}; the proposal is Failed and no tx_id was stored.
C18_WitnessSubmitFailed ==
    \E s \in DOMAIN submit :
        /\ submit[s].result = "failed"
        /\ submit[s].error = "Err: submit failed"
        /\ submit[s].tx_id = IntentHashOf(s)
        /\ proposals[submit[s].id].status = "Failed"
        /\ proposals[submit[s].id].tx_id = 0

\* ------------------------------------------------ the handlers run to their end

\* The steps of submit request s after its arrival: the handler's task is
\* polled by the runtime until it has answered, and every store and gateway
\* call it awaits returns.
SubmitRun(s) ==
    \/ SubmitSigs(s)
    \/ SubmitEpoch(s)
    \/ SubmitCas(s)
    \/ SubmitRecord(s)
    \/ SubmitGateway(s)
    \/ SubmitTxId(s)
    \/ SubmitPoll(s)
    \/ SubmitCommit(s)
    \/ SubmitFail(s)

\* One sign request, the submit request, the monitor and the ledger, with
\* every admitted submit request run to its response.
LiveSpec == InitAny /\ [][Next]_vars /\ \A s \in SubmitReqs : WF_vars(SubmitRun(s))

InitPoll ==
    /\ proposals = << >>
    /\ signatures = << >>
    /\ submission_attempts = << >>
    /\ current_epoch = 0
    /\ live_rule \in [signers : {RuleKeyHashes}, threshold : 1..MaxThreshold]
    /\ gateway_txs = << >>
    /\ sign = [r \in SignReqs |-> SignIdle]
    /\ submit = [r \in SubmitReqs |-> SubmitIdle]
    /\ monitor = MonitorIdle
    /\ call \in [op : {"wait_for_commit"}, max_attempts : 0..MaxPollAttempts,
                 pc : {"for"}, attempt : {0}, answers : {<< >>},
                 messages : {<< >>}, queries : {0}, sleeps : {0},
                 result : {NoValue}, error_text : {NoValue}]

\* for attempt in 0..max_attempts: the next iteration, or the timeout error
\* after the loop.
WaitFor ==
    /\ call.pc = "for"
    /\ call' = IF call.attempt < call.max_attempts
               THEN [call EXCEPT !.pc = "query"]
               ELSE [call EXCEPT !.pc = "done", !.result = "Err: timeout"]
    /\ UNCHANGED <<store_vars, ledger_vars, sign, submit, monitor>>

\* The error_message field of a status answer: null or a text.
ErrorMessages == {NoValue, "boom"}

\* Option<String>::unwrap_or_default
unwrap_or_default(error_message) ==
    IF error_message = NoValue THEN "" ELSE error_message

\* The text after the colon of the anyhow! error wait_for_commit returns for
\* an answer that ends the loop with Err (null: the error has no such text).
error_detail(answer, error_message) ==
    CASE answer \in {"CommittedFailure", "Rejected"} -> unwrap_or_default(error_message)
      [] answer = "Other" -> answer
      [] OTHER -> NoValue

\* get_transaction_status and the match on its answer.
WaitQuery ==
    /\ call.pc = "query"
    /\ \E answer \in StatusAnswers, error_message \in ErrorMessages :
        LET outcome == wait_for_commit(answer, call.attempt, call.max_attempts)
            asked == [call EXCEPT !.queries = @ + 1,
                                  !.answers = Append(@, answer),
                                  !.messages = Append(@, error_message)]
        IN  call' =
              CASE outcome = "retry" -> [asked EXCEPT !.pc = "sleep"]
                [] answer \in {"Pending", "Unknown"} ->
                      [asked EXCEPT !.pc = "for", !.attempt = @ + 1]
                [] outcome = "Ok" -> [asked EXCEPT !.pc = "done", !.result = outcome]
                [] OTHER -> [asked EXCEPT !.pc = "done", !.result = outcome,
                                          !.error_text = error_detail(answer, error_message)]
    /\ UNCHANGED <<store_vars, ledger_vars, sign, submit, monitor>>

\* tokio::time::sleep(2s), then the loop's next iteration.
WaitSleep ==
    /\ call.pc = "sleep"
    /\ call' = [call EXCEPT !.pc = "for", !.attempt = @ + 1, !.sleeps = @ + 1]
    /\ UNCHANGED <<store_vars, ledger_vars, sign, submit, monitor>>

NextPoll ==
    \/ WaitFor
    \/ WaitQuery
    \/ WaitSleep

\* The call runs on: the gateway answers every query and the sleep ends.
PollSpec == InitPoll /\ [][NextPoll]_vars /\ WF_vars(NextPoll)

\* Every answer the call got was Pending or Unknown.
AllPending == \A i \in DOMAIN call.answers : call.answers[i] \in {"Pending", "Unknown"}

\* C20 as stated, for the call that has returned: wait_for_commit has made
\* at most max_attempts status queries and at most max_attempts - 1 sleeps,
\* and has returned a timeout error if every answer was Pending or Unknown.
C20_AtMostMaxMinusOneSleeps ==
    call.pc = "done" =>
        /\ call.queries <= call.max_attempts
        /\ call.sleeps <= call.max_attempts - 1
        /\ AllPending => call.result = "Err: timeout"

\* C20 amended: wait_for_commit returns for every max_attempts >= 0 and every
\* sequence of answers, after at most max_attempts status queries and at most
\* max_attempts - 1 sleeps when max_attempts >= 1, no query and no sleep when
\* max_attempts = 0; it never sleeps after its last query; and if every
\* answer is Pending or Unknown it returns a timeout error.
C20_PollTerminates ==
    /\ <>(call.pc = "done")
    /\ [](/\ call.queries <= call.max_attempts
          /\ call.sleeps <= IF call.max_attempts >= 1
                            THEN call.max_attempts - 1 ELSE 0
          /\ call.pc = "done" =>
                /\ call.queries = 0 \/ call.sleeps < call.queries
                /\ AllPending => call.result = "Err: timeout"
                /\ call.result # NoValue)

\* The call with max_attempts = 3 got Pending or Unknown three times: it
\* made 3 queries and 2 sleeps and returned the timeout error.
C20_Witness ==
    /\ call.pc = "done"
    /\ call.max_attempts = 3
    /\ call.queries = 3
    /\ call.sleeps = 2
    /\ AllPending
    /\ call.result = "Err: timeout"

\* The call with max_attempts = 0 returned the timeout error without a query.
C20_WitnessZero ==
    /\ call.pc = "done"
    /\ call.max_attempts = 0
    /\ call.queries = 0
    /\ call.sleeps = 0
    /\ call.result = "Err: timeout"

\* The call's i-th status query answered CommittedSuccess after answers that
\* were all Pending or Unknown.
SuccessAt(i) ==
    /\ call.answers[i] = "CommittedSuccess"
    /\ \A j \in 1..(i - 1) : call.answers[j] \in {"Pending", "Unknown"}

\* C21: wait_for_commit returns Ok exactly when one of its at most
\* max_attempts status queries answered CommittedSuccess after answers that
\* were all Pending or Unknown; an answer CommittedFailure or Rejected is the
\* call's last query and the call returns an error carrying that answer's
\* error_message; only a Pending or Unknown answer is followed by another
\* query, and the timeout error comes only after max_attempts such answers.
C21_SuccessIffCommittedSuccess ==
    /\ Len(call.answers) = call.queries
    /\ call.queries <= call.max_attempts
    /\ \A i \in 1..(Len(call.answers) - 1) : call.answers[i] \in {"Pending", "Unknown"}
    /\ \A i \in DOMAIN call.answers :
          call.answers[i] \notin {"Pending", "Unknown"} => call.pc = "done"
    /\ call.pc = "done" =>
          /\ call.result = "Ok" <=> \E i \in DOMAIN call.answers : SuccessAt(i)
          /\ \A i \in DOMAIN call.answers :
                /\ call.answers[i] = "CommittedFailure" =>
                      /\ call.result = "Err: transaction failed"
                      /\ call.error_text = unwrap_or_default(call.messages[i])
                /\ call.answers[i] = "Rejected" =>
                      /\ call.result = "Err: transaction rejected"
                      /\ call.error_text = unwrap_or_default(call.messages[i])
          /\ call.result = "Err: timeout" <=>
                (AllPending /\ Len(call.answers) = call.max_attempts)

\* The call got Pending, then CommittedSuccess, and returned Ok.
C21_Witness ==
    /\ call.pc = "done"
    /\ call.result = "Ok"
    /\ call.answers = <<"Pending", "CommittedSuccess">>

\* The call got Unknown, then CommittedFailure with an error_message, and
\* returned the error carrying it.
C21_WitnessFailure ==
    /\ call.pc = "done"
    /\ call.answers = <<"Unknown", "CommittedFailure">>
    /\ call.messages[2] = "boom"
    /\ call.result = "Err: transaction failed"
    /\ call.error_text = "boom"

\* The gateway accepted submit request s's transaction.
Accepted(s) ==
    \E t \in DOMAIN gateway_txs : gateway_txs[t].intent_hash = IntentHashOf(s)

\* Submit request s is polling for the commit, or has polled.
Polling(s) ==
    \/ submit[s].pc \in {"poll", "commit"}
    \/ submit[s].pc = "fail" /\ submit[s].tx_status # NoValue

\* C22: a submit request stores tx_id and submitted_at on the proposal only
\* after the gateway has accepted its submission (as a duplicate or not) and
\* before its first status query: while the request polls, and after its
\* polling has ended, the proposal row carries the request's tx_id; before
\* the gateway's acceptance the row carries none.
C22_TxIdBeforePolling ==
    /\ [](\A s \in DOMAIN submit :
             /\ Polling(s) =>
                   /\ Accepted(s)
                   /\ proposals[submit[s].id].tx_id = IntentHashOf(s)
                   /\ proposals[submit[s].id].submitted_at # 0
             /\ submit[s].pc \in {"record", "gateway"} =>
                   /\ ~Accepted(s)
                   /\ proposals[submit[s].id].tx_id = 0
                   /\ proposals[submit[s].id].submitted_at = 0)
    /\ [][ \A id \in DOMAIN proposals :
             ( \/ proposals'[id].tx_id # proposals[id].tx_id
               \/ proposals'[id].submitted_at # proposals[id].submitted_at ) =>
                 \E s \in DOMAIN submit :
                     /\ submit[s].id = id
                     /\ submit[s].pc = "tx_id"
                     /\ Accepted(s)
                     /\ submit[s].tx_status = NoValue
                     /\ submit'[s].pc = "poll"
                     /\ proposals'[id].tx_id = IntentHashOf(s) ]_vars
    /\ [][ \A s \in DOMAIN submit :
             (submit[s].pc = "gateway" /\ submit'[s].pc = "tx_id") =>
                 (Accepted(s))' ]_vars

\* The gateway accepted the submission; the request has been answered
\* Unknown once and the proposal, still Submitting, carries its tx_id and
\* submitted_at.
C22_Witness ==
    \E s \in DOMAIN submit :
        /\ submit[s].pc = "poll"
        /\ submit[s].attempt = 1
        /\ submit[s].tx_status = "Unknown"
        /\ proposals[submit[s].id].status = "Submitting"
        /\ proposals[submit[s].id].tx_id = IntentHashOf(s)
        /\ proposals[submit[s].id].submitted_at # 0
        /\ Accepted(s)

\* The gateway accepted the submission as a duplicate: the request is about
\* to store its tx_id.
C22_WitnessDuplicate ==
    \E s \in DOMAIN submit :
        /\ submit[s].pc = "tx_id"
        /\ submit[s].duplicate
        /\ Accepted(s)
        /\ proposals[submit[s].id].tx_id = 0

\* The submission-attempt rows that carry submit request s's intent hash.
AttemptsOf(s) ==
    {a \in DOMAIN submission_attempts :
        submission_attempts[a].tx_hash = IntentHashOf(s)}

\* C23: a submit request that has won the Ready -> Submitting
\* compare-and-set appends one submission-attempt row, with status
\* "submitting" and its transaction intent hash, before it calls the
\* gateway: from the gateway call on the request has exactly one row, a
\* request that has not won has none, and the table only grows by such
\* appends (no row is changed or removed).
C23_OneAttemptRow ==
    /\ [](\A s \in DOMAIN submit :
             /\ Cardinality(AttemptsOf(s)) =
                   IF CasWon(s) /\ submit[s].pc # "record" THEN 1 ELSE 0
             /\ \A a \in AttemptsOf(s) :
                   submission_attempts[a] =
                       [proposal_id |-> submit[s].id, tx_hash |-> IntentHashOf(s),
                        status |-> "submitting", error_message |-> NoValue])
    /\ [](\A a \in DOMAIN submission_attempts :
             \E s \in DOMAIN submit : a \in AttemptsOf(s))
    /\ [][ submission_attempts' # submission_attempts =>
             /\ Len(submission_attempts') = Len(submission_attempts) + 1
             /\ SubSeq(submission_attempts', 1, Len(submission_attempts))
                   = submission_attempts
             /\ \E s \in DOMAIN submit :
                   /\ submit[s].pc = "record"
                   /\ submit'[s].pc = "gateway"
                   /\ proposals[submit[s].id].status = "Submitting"
                   /\ ~Accepted(s)
                   /\ AttemptsOf(s)' = {Len(submission_attempts')} ]_vars

\* The request has recorded its attempt and is about to call the gateway; the
\* proposal is Submitting.
C23_Witness ==
    \E s \in DOMAIN submit :
        /\ submit[s].pc = "gateway"
        /\ Cardinality(AttemptsOf(s)) = 1
        /\ proposals[submit[s].id].status = "Submitting"
        /\ ~Accepted(s)

\* ------------------------------------------- sign_proposal's HTTP status codes

\* The text of the error add_signature returns with each outcome of the
\* model, as its words (split at spaces and punctuation; <id>, <hash> stand
\* for the formatted values, which hold no space).
ErrorMessage(result) ==
    CASE result = "different subintent hash" ->
            <<"Wallet", "produced", "a", "different", "subintent", "hash", "(",
              "expected", "<hash>", ",", "got", "<hash>", ")", ".", "Your",
              "wallet", "may", "not", "support", "custom", "subintent",
              "headers", "-", "please", "update", "your", "Radix", "Wallet", ".">>
      [] result = "no signatures" ->
            <<"Signed", "partial", "transaction", "has", "no", "signatures">>
      [] result = "Secp256k1 not yet supported" ->
            <<"Secp256k1", "signatures", "not", "yet", "supported", "(",
              "public", "key", "recovery", "needed", ")">>
      [] result = "not in the current access rule" ->
            <<"Signer", "with", "key", "hash", "<hash>", "is", "not", "in",
              "the", "current", "access", "rule">>
      [] result = "status: not Created or Signing" ->
            <<"Proposal", "is", "in", "<status>", "status", ";", "signatures",
              "can", "only", "be", "added", "in", "Created", "or", "Signing">>
      [] result = "already signed" ->
            <<"Signer", "<hash>", "has", "already", "signed", "this", "proposal">>
      [] result = "not found or not in Created status" ->
            <<"Proposal", "<id>", "not", "found", "or", "not", "in", "Created",
              "status">>
      [] result = "not found or not in Signing status" ->
            <<"Proposal", "<id>", "not", "found", "or", "not", "in", "Signing",
              "status">>
      [] OTHER -> << >>

\* str::contains
contains(msg, needle) ==
    \E i \in 1..(Len(msg) - Len(needle) + 1) :
        SubSeq(msg, i, i + Len(needle) - 1) = needle

\* The map_err of sign_proposal around add_signature: the status code chosen
\* from the error's text.
add_signature_status_code(msg) ==
    IF contains(msg, <<"not", "found">>) THEN 404
    ELSE IF \/ contains(msg, <<"not", "in", "the", "current", "access", "rule">>)
            \/ contains(msg, <<"already", "signed">>)
            \/ contains(msg, <<"status">>)
            \/ contains(msg, <<"different", "subintent", "hash">>)
         THEN 400
    ELSE 500

\* The HTTP status code of sign_proposal's response for each outcome.
sign_status_code(result) ==
    CASE result = "ok" -> 200
      [] result = "Proposal not found" -> 404
      [] result = "Failed to read access rule" -> 500
      [] OTHER -> add_signature_status_code(ErrorMessage(result))

\* The outcomes that are an authorization mismatch.
AuthorizationMismatches ==
    {"not in the current access rule", "different subintent hash",
     "Secp256k1 not yet supported"}

\* C24: a sign request rejected for an authorization mismatch (signer not in
\* the access rule, wrong subintent hash, Secp256k1 signature) is answered
\* with HTTP 400.
C24_MismatchIs400 ==
    \A r \in DOMAIN sign :
        (sign[r].pc = "done" /\ sign[r].result \in AuthorizationMismatches)
            => sign_status_code(sign[r].result) = 400

\* The outcomes that are a conflict: the signer has already signed, the
\* proposal is not in Created or Signing, a concurrent status transition was
\* lost.
Conflicts ==
    {"already signed", "status: not Created or Signing",
     "not found or not in Created status", "not found or not in Signing status"}

\* No request other than r carries r's signer for r's proposal.
OnlyRequestOfSigner(r) ==
    \A q \in DOMAIN sign \ {r} :
        ~(sign[q].id = sign[r].id
            /\ sign[q].partial.public_key = sign[r].partial.public_key)

\* C25: a sign request that fails with a conflict is answered with HTTP 400
\* and has changed nothing: it has added no signature row (a request that is
\* the only one of its signer leaves no row of that signer behind).
C25_ConflictIs400NoChange ==
    \A r \in DOMAIN sign :
        (sign[r].pc = "done" /\ sign[r].result \in Conflicts) =>
            /\ sign_status_code(sign[r].result) = 400
            /\ OnlyRequestOfSigner(r) =>
                  \A i \in DOMAIN signatures :
                      ~(signatures[i].proposal_id = sign[r].id
                          /\ signatures[i].signer_public_key
                                = sign[r].partial.public_key)

\* ------------------------------------------ create requests of any expiry

\* The expiry_epoch values a client can post (a u64).
ExpiryEpochs == 0..(2 ^ IntBits - 1)

\* rng.gen() of a u64: any value of the width.
Discriminators == 0..(2 ^ IntBits - 1)

\* build_unsigned_subintent: the discriminator of the SubintentResult is the
\* value drawn from the generator, passed on as it is.
build_unsigned_subintent(rng) == [intent_discriminator |-> rng]

\* POST /proposals with any expiry_epoch, from the read of the access rule to
\* the response: the request, the epoch it read (-1: it read none), what it
\* was answered, the discriminator the builder produced and the value handed
\* to the INSERT (0 when nothing was built) are kept.
create_request(expiry_epoch) ==
    /\ Len(proposals) + 1 \in ProposalIds
    /\ \E rule_ok, epoch_ok \in BOOLEAN, rng \in Discriminators :
        LET subintent_result == build_unsigned_subintent(rng)
            response ==
                IF ~rule_ok THEN [status_code |-> 500, error |-> "Failed to read access rule"]
                ELSE IF ~is_multisig(live_rule)
                    THEN [status_code |-> 400, error |-> "No multisig accounts found"]
                ELSE IF ~epoch_ok
                    THEN [status_code |-> 500, error |-> "Failed to get current epoch"]
                ELSE IF expiry_rejected(expiry_epoch, current_epoch)
                    THEN [status_code |-> 400,
                          error |-> "Expiry epoch must be greater than current epoch"]
                ELSE [status_code |-> 200, error |-> NoValue]
        IN  /\ IF response.status_code = 200
               THEN store_create(current_epoch, expiry_epoch)
               ELSE proposals' = proposals
            /\ call' = [op |-> "create_proposal", expiry_epoch |-> expiry_epoch,
                        current_epoch |-> IF rule_ok /\ is_multisig(live_rule) /\ epoch_ok
                                          THEN current_epoch ELSE -1,
                        status_code |-> response.status_code,
                        error |-> response.error,
                        produced_discriminator |->
                            IF response.status_code = 200
                            THEN subintent_result.intent_discriminator ELSE 0,
                        intent_discriminator |->
                            IF response.status_code = 200
                            THEN as_i64(subintent_result.intent_discriminator)
                            ELSE 0]
    /\ UNCHANGED <<signatures, submission_attempts, ledger_vars, sign, submit, monitor>>

NextCreate ==
    \/ Ledger
    \/ \E expiry_epoch \in ExpiryEpochs : create_request(expiry_epoch)

CreateSpec == Init /\ [][NextCreate]_vars

\* This step is a create request that read the epoch (its two gateway reads
\* succeeded and the account's rule is multi-signer).
CreateReadEpoch ==
    /\ call' # call
    /\ call'.op = "create_proposal"
    /\ call'.current_epoch # -1

C26_WitnessRejected ==
    /\ call.op = "create_proposal"
    /\ call.status_code = 400
    /\ call.current_epoch = 1
    /\ call.expiry_epoch = 1
    /\ proposals = << >>

\* A request whose expiry_epoch has its top bit set was accepted: the stored
\* column is negative and reads back as the expiry_epoch.
C26_WitnessTopBit ==
    /\ call.op = "create_proposal"
    /\ call.status_code = 200
    /\ Len(proposals) = 1
    /\ proposals[1].epoch_max < 0
    /\ as_u64(proposals[1].epoch_max) = call.expiry_epoch

\* -------------------------------------- GET /proposals/{id}/signatures

StatusIdle ==
    [op |-> "get_signature_status", pc |-> "idle", id |-> 0,
     access_rule |-> NoRule, status_code |-> 0, response |-> NoValue]

\* Handler get_signature_status: proposal_store.get (404 for an unknown id).
StatusGet(id) ==
    /\ call.pc \in {"idle", "done"}
    /\ call' = IF Exists(proposals, id)
               THEN [StatusIdle EXCEPT !.pc = "rule", !.id = id]
               ELSE [StatusIdle EXCEPT !.pc = "done", !.id = id,
                                       !.status_code = 404]
    /\ UNCHANGED <<store_vars, ledger_vars, sign, submit, monitor>>

\* Handler get_signature_status: gateway.read_access_rule (500 when the
\* gateway fails).
StatusReadRule ==
    /\ call.pc = "rule"
    /\ \E gateway_ok \in BOOLEAN :
        call' = IF gateway_ok
                THEN [call EXCEPT !.pc = "list", !.access_rule = live_rule]
                ELSE [StatusIdle EXCEPT !.pc = "done", !.id = call.id,
                                        !.status_code = 500]
    /\ UNCHANGED <<store_vars, ledger_vars, sign, submit, monitor>>

\* Handler get_signature_status: signature_collector.get_signature_status,
\* the 200 response.
StatusList ==
    /\ call.pc = "list"
    /\ call' = [call EXCEPT
                   !.pc = "done", !.status_code = 200,
                   !.response =
                       get_signature_status(signatures, call.id, call.access_rule)]
    /\ UNCHANGED <<store_vars, ledger_vars, sign, submit, monitor>>

GetSignatureStatus ==
    \/ \E id \in ProposalIds \cup {2} : StatusGet(id)
    \/ StatusReadRule
    \/ StatusList

InitStatus ==
    /\ proposals = << >>
    /\ signatures = << >>
    /\ submission_attempts = << >>
    /\ current_epoch = 0
    /\ live_rule \in [signers : {RuleKeyHashes}, threshold : 1..MaxThreshold]
    /\ gateway_txs = << >>
    /\ sign = [r \in SignReqs |-> SignIdle]
    /\ submit = [r \in SubmitReqs |-> SubmitIdle]
    /\ monitor = MonitorIdle
    /\ call = StatusIdle

\* Status requests one at a time, while proposals are created and signed, and
\* the monitor and the ledger run.
NextStatus ==
    \/ Ledger
    \/ CreateProposal
    \/ SignProposal
    \/ Monitor
    \/ GetSignatureStatus

StatusSpec == InitStatus /\ [][NextStatus]_vars

\* The stored signature rows of proposal id.
RowsOfProposal(id) ==
    {i \in DOMAIN signatures : signatures[i].proposal_id = id}

\* The stored rows of proposal id whose key hash is h.
RowsOfSigner(id, h) ==
    {i \in RowsOfProposal(id) : signatures[i].signer_key_hash = h}

\* C27: the status returned for a proposal has collected = the number of
\* stored signature rows of the proposal, threshold = the threshold of the
\* rule the request read from the ledger (which was the live rule when it was
\* read), remaining = max(0, threshold - collected), and one entry per signer
\* of that rule with has_signed = (a row with that key hash exists) and
\* is_valid = that row's stored flag, true when the signer has no row.
C27_StatusMirrorsRows ==
    [][/\ (call.pc = "rule" /\ call'.pc = "list")
            => call'.access_rule = live_rule
       /\ (call.pc = "list" /\ call'.pc = "done") =>
            LET st == call'.response
                rule == call.access_rule
                collected == Cardinality(RowsOfProposal(call.id))
            IN  /\ call'.status_code = 200
                /\ st.collected = collected
                /\ st.threshold = rule.threshold
                /\ st.remaining + collected >= rule.threshold
                /\ st.remaining >= 0
                /\ (st.remaining = 0 \/ st.remaining + collected = rule.threshold)
                /\ DOMAIN st.signers = rule.signers
                /\ \A h \in rule.signers :
                    /\ st.signers[h].has_signed = (RowsOfSigner(call.id, h) # {})
                    /\ \A i \in RowsOfSigner(call.id, h) :
                          st.signers[h].is_valid = signatures[i].is_valid
                    /\ RowsOfSigner(call.id, h) = {} => st.signers[h].is_valid]_vars

\* A status was returned while a signer of the rule has a row marked invalid,
\* another signer has no row, and a signature is still missing.
C27_Witness ==
    /\ call.pc = "done"
    /\ call.status_code = 200
    /\ call.response.remaining > 0
    /\ \E h \in DOMAIN call.response.signers :
        /\ call.response.signers[h].has_signed
        /\ ~call.response.signers[h].is_valid
    /\ \E h \in DOMAIN call.response.signers :
        ~call.response.signers[h].has_signed

\* A status was returned with more rows than the threshold: remaining is 0.
C27_WitnessSaturated ==
    /\ call.pc = "done"
    /\ call.status_code = 200
    /\ call.response.collected > call.response.threshold
    /\ call.response.remaining = 0

\* The cap of the discriminator, 2^53 of the 64 bits, at the model's width:
\* below the sign bit of the stored column.
DiscriminatorCap == 2 ^ (IntBits - 2)

\* C28: the discriminator the builder produced for an accepted proposal, and
\* the value stored on the proposal from it, are at least 0 and below the cap.
C28_DiscriminatorBelowCap ==
    (call.op = "create_proposal" /\ call.status_code = 200) =>
        /\ 0 <= call.produced_discriminator
        /\ call.produced_discriminator < DiscriminatorCap
        /\ 0 <= call.intent_discriminator
        /\ call.intent_discriminator < DiscriminatorCap

\* ------------------------------------------- parsing of the owner rule JSON

\* Width of a u8 in the model (8 bits in the program).
ByteBits == 2

\* Longest list of requirements in a rule.
MaxListLen == 4

\* `x as u8`
as_u8(x) == x % (2 ^ ByteBits)

\* A JSON string that is absent (or not a string).
Missing == <<NoValue>>

\* Resource addresses, as the pieces the key type is inferred from.
Ed25519Badge == <<"resource_", "ed25sg", "_1">>
Secp256k1Badge == <<"resource_", "secpsg", "_1">>
OtherBadge == <<"resource_", "xrd">>

\* Requirements a rule's JSON may list: NonFungible badges whose local id is
\* a bracketed hash, one whose local id has no brackets, one without a local
\* id, a requirement of another type and one without a type.
Requirements ==
    { [type |-> "NonFungible", simple_rep |-> <<"[", "a", "]">>,
       resource_address |-> Ed25519Badge],
      [type |-> "NonFungible", simple_rep |-> <<"[", "b", "]">>,
       resource_address |-> Secp256k1Badge],
      [type |-> "NonFungible", simple_rep |-> <<"c">>,
       resource_address |-> OtherBadge],
      [type |-> "NonFungible", simple_rep |-> Missing,
       resource_address |-> Ed25519Badge],
      [type |-> "Resource", simple_rep |-> Missing,
       resource_address |-> Missing],
      [type |-> NoValue, simple_rep |-> Missing, resource_address |-> Missing] }

NoRequirement ==
    [type |-> NoValue, simple_rep |-> Missing, resource_address |-> Missing]

RequirementLists == UNION {[1..n -> Requirements] : n \in 0..MaxListLen}

\* What "count" may hold: any u64, or -1 for a value as_u64() refuses.
Counts == -1..(2 ^ IntBits - 1)

EmptyRuleJson ==
    [type |-> NoValue, proof_rule_type |-> NoValue, count |-> -1,
     list_is_array |-> FALSE, list |-> << >>, requirement |-> NoRequirement]

\* The owner rules the gateway may return.
RuleJsons ==
    {[EmptyRuleJson EXCEPT !.type = t] :
        t \in {"AllowAll", "DenyAll", "Other", NoValue}}
    \cup
    {[EmptyRuleJson EXCEPT !.type = "Protected", !.proof_rule_type = t] :
        t \in {"Other", NoValue}}
    \cup
    {[EmptyRuleJson EXCEPT !.type = "Protected", !.proof_rule_type = "Require",
                           !.requirement = req] : req \in Requirements}
    \cup
    {[EmptyRuleJson EXCEPT !.type = "Protected", !.proof_rule_type = t,
                           !.count = IF t = "CountOf" THEN count ELSE -1] :
        t \in {"CountOf", "AllOf", "AnyOf"}, count \in Counts}
    \cup
    {[EmptyRuleJson EXCEPT !.type = "Protected", !.proof_rule_type = t,
                           !.count = IF t = "CountOf" THEN count ELSE -1,
                           !.list_is_array = TRUE, !.list = list] :
        t \in {"CountOf", "AllOf", "AnyOf"}, count \in Counts,
        list \in RequirementLists}

RECURSIVE trim_start_matches(_, _)
trim_start_matches(str, ch) ==
    IF str # << >> /\ Head(str) = ch THEN trim_start_matches(Tail(str), ch)
    ELSE str

RECURSIVE trim_end_matches(_, _)
trim_end_matches(str, ch) ==
    IF str # << >> /\ str[Len(str)] = ch
    THEN trim_end_matches(SubSeq(str, 1, Len(str) - 1), ch)
    ELSE str

ParseErr(error) ==
    [ok |-> FALSE, error |-> error, signers |-> << >>, threshold |-> 0,
     is_updatable |-> FALSE]

ParseOk(signers, threshold) ==
    [ok |-> TRUE, error |-> NoValue, signers |-> signers,
     threshold |-> threshold, is_updatable |-> FALSE]

\* parse_non_fungible_requirement: Err, or the SignerInfo in "signer".
parse_non_fungible_requirement(req) ==
    IF req.type = NoValue
    THEN [ok |-> FALSE, error |-> "Missing 'type' in requirement"]
    ELSE IF req.type # "NonFungible"
    THEN [ok |-> FALSE, error |-> "Expected NonFungible requirement"]
    ELSE IF req.resource_address = Missing
    THEN [ok |-> FALSE, error |-> "Missing resource_address in NonFungible"]
    ELSE IF req.simple_rep = Missing
    THEN [ok |-> FALSE, error |-> "Missing simple_rep in local_id"]
    ELSE [ok |-> TRUE,
          signer |->
            [key_hash |->
                trim_end_matches(trim_start_matches(req.simple_rep, "["), "]"),
             key_type |->
                IF contains(req.resource_address, <<"ed25sg">>)
                THEN "EddsaEd25519"
                ELSE IF contains(req.resource_address, <<"secpsg">>)
                THEN "EcdsaSecp256k1"
                ELSE "Unknown",
             badge_resource |-> req.resource_address,
             badge_local_id |-> req.simple_rep]]

\* list.iter().map(parse_non_fungible_requirement).collect::<Result<Vec<_>>>():
\* the first Err of the list, or all the signers in the list's order.
collect_signers(list) ==
    LET parsed == [i \in DOMAIN list |-> parse_non_fungible_requirement(list[i])]
        failed == {i \in DOMAIN list : ~parsed[i].ok}
    IN  IF failed # {}
        THEN [ok |-> FALSE,
              error |-> parsed[CHOOSE i \in failed : \A j \in failed : i <= j].error]
        ELSE [ok |-> TRUE, signers |-> [i \in DOMAIN list |-> parsed[i].signer]]

parse_count_of(proof_rule) ==
    IF proof_rule.count = -1 THEN ParseErr("Missing 'count' in CountOf rule")
    ELSE IF ~proof_rule.list_is_array
    THEN ParseErr("Missing 'list' in CountOf rule")
    ELSE LET signers == collect_signers(proof_rule.list)
         IN  IF ~signers.ok THEN ParseErr(signers.error)
             ELSE ParseOk(signers.signers, as_u8(proof_rule.count))

parse_require(proof_rule) ==
    LET signer == parse_non_fungible_requirement(proof_rule.requirement)
    IN  IF ~signer.ok THEN ParseErr(signer.error)
        ELSE ParseOk(<<signer.signer>>, 1)

parse_all_of(proof_rule) ==
    IF ~proof_rule.list_is_array THEN ParseErr("Missing 'list' in AllOf rule")
    ELSE LET signers == collect_signers(proof_rule.list)
         IN  IF ~signers.ok THEN ParseErr(signers.error)
             ELSE ParseOk(signers.signers, as_u8(Len(signers.signers)))

parse_any_of(proof_rule) ==
    IF ~proof_rule.list_is_array THEN ParseErr("Missing 'list' in AnyOf rule")
    ELSE LET signers == collect_signers(proof_rule.list)
         IN  IF ~signers.ok THEN ParseErr(signers.error)
             ELSE ParseOk(signers.signers, 1)

parse_access_rule(rule_json) ==
    IF rule_json.type = NoValue THEN ParseErr("Missing 'type' in owner rule")
    ELSE IF rule_json.type = "Protected"
    THEN IF rule_json.proof_rule_type = NoValue
         THEN ParseErr("Missing 'type' in proof_rule")
         ELSE CASE rule_json.proof_rule_type = "CountOf" -> parse_count_of(rule_json)
                [] rule_json.proof_rule_type = "Require" -> parse_require(rule_json)
                [] rule_json.proof_rule_type = "AllOf" -> parse_all_of(rule_json)
                [] rule_json.proof_rule_type = "AnyOf" -> parse_any_of(rule_json)
                [] OTHER -> ParseErr("Unsupported proof_rule type")
    ELSE IF rule_json.type = "AllowAll" THEN ParseOk(<< >>, 0)
    ELSE IF rule_json.type = "DenyAll"
    THEN ParseErr("Account has DenyAll access rule")
    ELSE ParseErr("Unsupported rule type")

\* The parser called on any owner rule.
InitParse ==
    /\ proposals = << >>
    /\ signatures = << >>
    /\ submission_attempts = << >>
    /\ current_epoch = 0
    /\ live_rule = [signers |-> RuleKeyHashes, threshold |-> 1]
    /\ gateway_txs = << >>
    /\ sign = [r \in SignReqs |-> SignIdle]
    /\ submit = [r \in SubmitReqs |-> SubmitIdle]
    /\ monitor = MonitorIdle
    /\ call \in [op : {"parse_access_rule"}, pc : {"called"},
                 rule_json : RuleJsons, result : {ParseErr(NoValue)}]

ParseAccessRule ==
    /\ call.pc = "called"
    /\ call' = [call EXCEPT !.pc = "done",
                            !.result = parse_access_rule(call.rule_json)]
    /\ UNCHANGED <<store_vars, ledger_vars, sign, submit, monitor>>

NextParse == ParseAccessRule

ParseSpec == InitParse /\ [][NextParse]_vars

\* A requirement the parser accepts: NonFungible with both strings present.
GoodRequirement(req) ==
    /\ req.type = "NonFungible"
    /\ req.resource_address # Missing
    /\ req.simple_rep # Missing

\* Every entry of the list is a requirement the parser accepts.
GoodList(list) == \A i \in DOMAIN list : GoodRequirement(list[i])

\* The rule parsed is Protected with a list rule of the given type, whose
\* list is an array.
ParsedListRule(type) ==
    /\ call.pc = "done"
    /\ call.rule_json.type = "Protected"
    /\ call.rule_json.proof_rule_type = type
    /\ call.rule_json.list_is_array

\* key_hash is simple_rep without its surrounding brackets.
StrippedOf(key_hash, simple_rep) ==
    /\ key_hash = << >> \/ (Head(key_hash) # "[" /\ key_hash[Len(key_hash)] # "]")
    /\ \E n, m \in 0..Len(simple_rep) :
        simple_rep = [i \in 1..n |-> "["] \o key_hash \o [i \in 1..m |-> "]"]

\* The signers are the list's entries, in order, with their key hashes
\* stripped of the brackets.
SignersOfList(signers, list) ==
    /\ Len(signers) = Len(list)
    /\ \A i \in DOMAIN list :
        /\ StrippedOf(signers[i].key_hash, list[i].simple_rep)
        /\ signers[i].badge_local_id = list[i].simple_rep
        /\ signers[i].badge_resource = list[i].resource_address

\* C29: parsing Protected CountOf(k, list), k any count the JSON carries and
\* every entry of the list a NonFungible requirement, yields threshold = k
\* and one signer per entry of the list, whose key_hash is the entry's
\* simple_rep without the surrounding brackets.
C29_CountOfThresholdIsCount ==
    (/\ ParsedListRule("CountOf")
     /\ call.rule_json.count >= 0
     /\ GoodList(call.rule_json.list))
    => /\ call.result.ok
       /\ call.result.threshold = call.rule_json.count
       /\ SignersOfList(call.result.signers, call.rule_json.list)

\* The same for the counts a u8 holds: these parse to threshold = k.
C29_CountOfWithinByte ==
    (/\ ParsedListRule("CountOf")
     /\ call.rule_json.count >= 0
     /\ call.rule_json.count < 2 ^ ByteBits
     /\ GoodList(call.rule_json.list))
    => /\ call.result.ok
       /\ call.result.threshold = call.rule_json.count
       /\ SignersOfList(call.result.signers, call.rule_json.list)

\* The rule parsed is Protected with a rule of the given inner type.
ParsedProtected(type) ==
    /\ call.pc = "done"
    /\ call.rule_json.type = "Protected"
    /\ call.rule_json.proof_rule_type = type

\* C30: Protected/Require parses to threshold 1 with the one signer of the
\* requirement, Protected/AllOf(list) to threshold = |list| with signers =
\* list, Protected/AnyOf(list) to threshold 1 with signers = list, AllowAll to
\* threshold 0 with no signers; DenyAll, an unknown outer or inner type, and a
\* rule with a requirement that is not NonFungible are errors.
C30_ShapesAsTabled ==
    /\ (ParsedProtected("Require") /\ GoodRequirement(call.rule_json.requirement))
        => /\ call.result.ok
           /\ call.result.threshold = 1
           /\ SignersOfList(call.result.signers, <<call.rule_json.requirement>>)
    /\ (ParsedListRule("AllOf") /\ GoodList(call.rule_json.list))
        => /\ call.result.ok
           /\ call.result.threshold = Len(call.rule_json.list)
           /\ SignersOfList(call.result.signers, call.rule_json.list)
    /\ (ParsedListRule("AnyOf") /\ GoodList(call.rule_json.list))
        => /\ call.result.ok
           /\ call.result.threshold = 1
           /\ SignersOfList(call.result.signers, call.rule_json.list)
    /\ (call.pc = "done" /\ call.rule_json.type = "AllowAll")
        => /\ call.result.ok
           /\ call.result.threshold = 0
           /\ call.result.signers = << >>
    /\ (call.pc = "done" /\ call.rule_json.type \in {"DenyAll", "Other"})
        => ~call.result.ok
    /\ ParsedProtected("Other") => ~call.result.ok
    /\ (/\ call.pc = "done"
        /\ call.rule_json.type = "Protected"
        /\ \/ \E i \in DOMAIN call.rule_json.list :
                  call.rule_json.list[i].type # "NonFungible"
           \/ /\ call.rule_json.proof_rule_type = "Require"
              /\ call.rule_json.requirement.type # "NonFungible")
        => ~call.result.ok

\* The same with AllOf limited to the lists whose length a u8 holds.
C30_ShapesWithinByte ==
    /\ (ParsedProtected("Require") /\ GoodRequirement(call.rule_json.requirement))
        => /\ call.result.ok
           /\ call.result.threshold = 1
           /\ SignersOfList(call.result.signers, <<call.rule_json.requirement>>)
    /\ (/\ ParsedListRule("AllOf")
        /\ GoodList(call.rule_json.list)
        /\ Len(call.rule_json.list) < 2 ^ ByteBits)
        => /\ call.result.ok
           /\ call.result.threshold = Len(call.rule_json.list)
           /\ SignersOfList(call.result.signers, call.rule_json.list)
    /\ (ParsedListRule("AllOf") /\ GoodList(call.rule_json.list))
        => /\ call.result.ok
           /\ SignersOfList(call.result.signers, call.rule_json.list)
    /\ (ParsedListRule("AnyOf") /\ GoodList(call.rule_json.list))
        => /\ call.result.ok
           /\ call.result.threshold = 1
           /\ SignersOfList(call.result.signers, call.rule_json.list)
    /\ (call.pc = "done" /\ call.rule_json.type = "AllowAll")
        => /\ call.result.ok
           /\ call.result.threshold = 0
           /\ call.result.signers = << >>
    /\ (call.pc = "done" /\ call.rule_json.type \in {"DenyAll", "Other"})
        => ~call.result.ok
    /\ ParsedProtected("Other") => ~call.result.ok
    /\ (/\ call.pc = "done"
        /\ call.rule_json.type = "Protected"
        /\ \/ \E i \in DOMAIN call.rule_json.list :
                  call.rule_json.list[i].type # "NonFungible"
           \/ /\ call.rule_json.proof_rule_type = "Require"
              /\ call.rule_json.requirement.type # "NonFungible")
        => ~call.result.ok

\* ------------------------------------------- one tick: expiry before drift

\* The proposals the tick is finding expired: those it listed whose
\* epoch_max the epoch it reads has reached (while the tick is at its read).
FoundExpired ==
    {monitor.todo[i].id : i \in {k \in DOMAIN monitor.todo :
                                    current_epoch >= as_u64(monitor.todo[k].epoch_max)}}

Phase2 == {"rule", "sig_hashes", "invalidate", "count", "mark_invalid"}

\* What C33 says of every step but the mark_expired itself: a proposal found
\* expired goes to the expiry list and not to phase 2's list, phase 2's list
\* never gains a proposal, and the tick invalidates signatures and marks
\* Invalid only the proposal at the head of phase 2's list.
ExpiredLeavePhase2 ==
    /\ (monitor.pc = "epoch" /\ monitor'.pc \notin {"epoch", "idle"}) =>
          \A id \in FoundExpired :
              id \in Range(monitor'.to_expire) /\ id \notin Range(monitor'.todo)
    /\ (monitor.pc \in Phase2 \cup {"expire"} /\ monitor'.pc # "idle") =>
          /\ Range(monitor'.todo) \subseteq Range(monitor.todo)
          /\ Range(monitor'.to_expire) \subseteq Range(monitor.to_expire)
    /\ monitor.pc = "expire" =>
          Range(monitor.to_expire) \cap Range(monitor.todo) = {}
    /\ \A i \in DOMAIN signatures :
          (signatures[i].is_valid /\ ~signatures'[i].is_valid) =>
              /\ monitor.pc = "invalidate"
              /\ signatures[i].proposal_id = Head(monitor.todo)
    /\ \A id \in DOMAIN proposals :
          (proposals[id].status # "Invalid" /\ proposals'[id].status = "Invalid") =>
              /\ monitor.pc = "mark_invalid"
              /\ id = Head(monitor.todo)

\* C33 as stated: a proposal found expired in a tick is kept out of the
\* access-rule phase of that tick, none of its signatures is invalidated in
\* the tick, and the tick's mark_expired leaves it Expired.
C33_ExpiredEndsExpired ==
    [][ /\ ExpiredLeavePhase2
        /\ MonitorExpireStep =>
              /\ signatures' = signatures
              /\ proposals'[Head(monitor.to_expire)].status = "Expired" ]_vars

\* C33 amended: a proposal found expired in a tick is kept out of the
\* access-rule phase of that tick, none of its signatures is invalidated in
\* the tick, and the tick's mark_expired leaves it Expired if it is still
\* Created, Signing or Ready, and as it is (never Invalid) if a submit request
\* has meanwhile moved it out of Ready.
C33_ExpiredNeverInvalid ==
    [][ /\ ExpiredLeavePhase2
        /\ MonitorExpireStep =>
              /\ signatures' = signatures
              /\ IF proposals[Head(monitor.to_expire)].status \in ActiveStatuses
                 THEN proposals'[Head(monitor.to_expire)].status = "Expired"
                 ELSE /\ proposals' = proposals
                      /\ proposals[Head(monitor.to_expire)].status
                            \in {"Submitting", "Committed", "Failed"} ]_vars

\* A tick is about to mark expired a proposal that holds a valid signature
\* of a signer who has left the rule.
C33_WitnessDrifted ==
    /\ monitor.pc = "expire"
    /\ \E i \in DOMAIN signatures :
          /\ signatures[i].proposal_id = Head(monitor.to_expire)
          /\ signatures[i].is_valid
          /\ signatures[i].signer_key_hash \notin live_rule.signers

\* The tick is over: the proposal is Expired and the signature of the signer
\* who left the rule is still marked valid.
C33_Witness ==
    /\ monitor.pc = "idle"
    /\ \E i \in DOMAIN signatures :
          /\ proposals[signatures[i].proposal_id].status = "Expired"
          /\ signatures[i].is_valid
          /\ signatures[i].signer_key_hash \notin live_rule.signers

\* ------------------------------------------- the monitor's loop, with fairness

\* The tick's read of the epoch is answered and finds an expired proposal.
MonitorEpochOk == MonitorEpoch /\ monitor'.pc = "expire"

\* The interval keeps firing and the monitor's awaits return (run's loop);
\* the gateway, asked again and again, eventually answers the epoch; submit
\* requests run on.
MonitorLiveSpec == LiveSpec /\ WF_vars(Monitor) /\ SF_vars(MonitorEpochOk)

\* Proposal id is active and the ledger's epoch has reached its epoch_max.
ExpiredActive(id) ==
    /\ Exists(proposals, id)
    /\ proposals[id].status \in ActiveStatuses
    /\ current_epoch >= as_u64(proposals[id].epoch_max)

\* C34 as stated: whatever ticks were abandoned, an active proposal whose
\* epoch window has passed is eventually marked Expired.
C34_ExpiredEventuallyMarked ==
    \A id \in ProposalIds :
        ExpiredActive(id)
            ~> (Exists(proposals, id) /\ proposals[id].status = "Expired")

\* C34 amended: whatever ticks were abandoned, an active proposal whose epoch
\* window has passed does not stay active: it is eventually marked Expired,
\* unless a submit request takes it out of Ready first or a tick that read
\* the epoch before the window passed marks it Invalid.
C34_ExpiredEventuallyLeaves ==
    \A id \in ProposalIds :
        ExpiredActive(id)
            ~> (Exists(proposals, id) /\ proposals[id].status \notin ActiveStatuses)

\* A tick has listed an active proposal whose window has passed and is at
\* its read of the epoch, which may fail and abandon the tick.
C34_Witness ==
    /\ monitor.pc = "epoch"
    /\ \E i \in DOMAIN monitor.todo : ExpiredActive(monitor.todo[i].id)

\* The rows of proposal id that are marked valid and whose signer is in rule.
CountingRows(id, rule) ==
    {i \in RowsOfProposal(id) :
        signatures[i].is_valid /\ signatures[i].signer_key_hash \in rule.signers}

\* C35: a step that makes a proposal Ready is the Signing -> Ready of a sign
\* request, and the proposal then holds at least threshold rows that are
\* valid and whose signers are in the rule that request read.
C35_ReadyNeedsValidRows ==
    [][ \A id \in DOMAIN proposals :
            (proposals[id].status # "Ready" /\ proposals'[id].status = "Ready") =>
                \E r \in DOMAIN sign :
                    /\ sign[r].pc = "to_ready"
                    /\ sign[r].id = id
                    /\ Cardinality(CountingRows(id, sign[r].access_rule))
                          >= sign[r].access_rule.threshold ]_vars

\* C36: the signatures a submit request read for the signed child were all
\* marked valid when it read them, and so are the signatures of every
\* transaction handed to the gateway.
C36_SubmitsOnlyValidSignatures ==
    [][ \A s \in DOMAIN submit :
            (submit[s].pc = "sigs" /\ submit'[s].pc = "epoch") =>
                \A k \in DOMAIN submit'[s].raw_sigs :
                    \E i \in RowsOfProposal(submit[s].id) :
                        /\ signatures[i].signer_public_key
                              = submit'[s].raw_sigs[k].public_key
                        /\ signatures[i].is_valid ]_vars

\* C37: no transaction is handed to the gateway by a submit request that
\* read a current epoch at or past the proposal's epoch_max.
C37_NoSubmitPastEpochMax ==
    \A k \in DOMAIN gateway_txs :
        gateway_txs[k].current_epoch
            < as_u64(proposals[gateway_txs[k].proposal_id].epoch_max)

\* The invalid_reason column of proposal id is not NULL.
ReasonSet(props, id) == props[id].invalid_reason # << >>

\* C38: in every reachable state invalid_reason is set exactly on the
\* proposals that are Expired or Invalid, and a step that changes a
\* proposal's invalid_reason is the monitor's mark_expired or mark_invalid,
\* which writes the status with it.
C38_ReasonIffExpiredOrInvalid ==
    /\ [](\A id \in DOMAIN proposals :
             ReasonSet(proposals, id)
                <=> proposals[id].status \in {"Expired", "Invalid"})
    /\ [][ \A id \in DOMAIN proposals :
             proposals'[id].invalid_reason # proposals[id].invalid_reason =>
                /\ monitor.pc \in {"expire", "mark_invalid"}
                /\ monitor' # monitor
                /\ proposals[id].status \in ActiveStatuses
                /\ proposals'[id].status
                      = IF monitor.pc = "expire" THEN "Expired" ELSE "Invalid"
                /\ proposals'[id].invalid_reason
                      = IF monitor.pc = "expire" THEN ExpiredReason
                        ELSE InvalidReason([i \in DOMAIN monitor.removed_signers |->
                                               abbreviate(monitor.removed_signers[i])]) ]_vars

\* The monitor has marked the proposal Invalid, with the reason naming the
\* removed signer, after a submit request had been refused or none had come.
C38_Witness ==
    \E id \in DOMAIN proposals :
        /\ proposals[id].status = "Invalid"
        /\ proposals[id].invalid_reason = InvalidReason(<<abbreviate("h1")>>)
        /\ monitor.pc = "idle"

\* A proposal went through a submit request to Committed: no reason is set.
C38_WitnessCommitted ==
    \E id \in DOMAIN proposals :
        /\ proposals[id].status = "Committed"
        /\ ~ReasonSet(proposals, id)

\* C39: no step deletes or rewrites a signature row, and no step sets an
\* is_valid flag back to true: the rows of a proposal and its invalidated
\* rows only grow.
C39_RowsAndInvalidationsOnlyGrow ==
    [][ /\ Len(signatures') >= Len(signatures)
        /\ \A i \in DOMAIN signatures :
              /\ [signatures'[i] EXCEPT !.is_valid = FALSE]
                    = [signatures[i] EXCEPT !.is_valid = FALSE]
              /\ signatures'[i].is_valid => signatures[i].is_valid
        /\ \A i \in DOMAIN signatures' \ DOMAIN signatures :
              signatures'[i].is_valid ]_vars

\* A row was added after another row of the proposal was invalidated, and
\* the invalidated row's signer is back in the rule: both rows are kept and
\* the flag stays false.
C39_Witness ==
    \E i, j \in DOMAIN signatures :
        /\ i < j
        /\ signatures[i].proposal_id = signatures[j].proposal_id
        /\ ~signatures[i].is_valid
        /\ signatures[j].is_valid
        /\ signatures[i].signer_key_hash \in live_rule.signers

\* The submit requests that have won the Ready -> Submitting compare-and-set
\* on proposal id.
WinnersOf(id) == {s \in DOMAIN submit : submit[s].id = id /\ CasWon(s)}

\* C40: a proposal with a non-null tx_id has status Submitting, Committed or
\* Failed and at most one submit request ever won its compare-and-set; a
\* tx_id is written only over a null one, on a Submitting proposal, by the
\* one request that won the compare-and-set, and is that request's intent
\* hash: once set it never changes.
C40_TxIdOnlyByWinner ==
    /\ [](\A id \in DOMAIN proposals :
             proposals[id].tx_id # 0 =>
                 /\ proposals[id].status \in {"Submitting", "Committed", "Failed"}
                 /\ Cardinality(WinnersOf(id)) = 1)
    /\ [][ \A id \in DOMAIN proposals :
             /\ proposals[id].tx_id # 0 =>
                   proposals'[id].tx_id = proposals[id].tx_id
             /\ proposals'[id].tx_id # proposals[id].tx_id =>
                   /\ proposals[id].status = "Submitting"
                   /\ proposals'[id].status = "Submitting"
                   /\ \E s \in WinnersOf(id) :
                         /\ WinnersOf(id) = {s}
                         /\ submit[s].pc = "tx_id"
                         /\ submit'[s].pc = "poll"
                         /\ proposals'[id].tx_id = IntentHashOf(s) ]_vars

\* Three submit requests raced for one proposal: the winner's tx_id is on the
\* row, its transaction has ended (Committed or Failed), and the two losers
\* were answered without having written anything.
C40_Witness ==
    \E s \in DOMAIN submit :
        /\ submit[s].pc = "done" /\ submit[s].result \in {"committed", "failed"}
        /\ proposals[submit[s].id].tx_id = IntentHashOf(s)
        /\ proposals[submit[s].id].status \in {"Committed", "Failed"}
        /\ \A q \in DOMAIN submit \ {s} :
              /\ submit[q].pc = "done"
              /\ submit[q].id = submit[s].id
              /\ ~CasWon(q)

\* ------------------------------------- partials and their root signatures

\* The most signatures attached to one partial.
MaxSignatures == 3

\* The intent headers a partial is built over (stokenet; timestamps None).
IntentHeaders ==
    [network_id : {2}, epoch_min : {0}, epoch_max : 0..MaxEpoch,
     intent_discriminator : {0, 2 ^ IntBits - 1}]

\* Rows of get_raw_signatures handed to reconstruct_signed_partial. A byte or
\* character string is its content and its length: public keys of 32 bytes
\* (64 hex digits) with signatures of 64 bytes, and malformed rows: a key of
\* 63 digits or of 31 bytes, a signature of 63 bytes.
StoredSignatures ==
    [public_key_hex : [content : {"pk1", "pk2"}, len : {63, 64}],
     signature_bytes : [content : {"sig"}, len : {64}]]
    \cup [public_key_hex : [content : {"pk1"}, len : {62}],
          signature_bytes : [content : {"sig"}, len : {64}]]
    \cup [public_key_hex : [content : {"pk1"}, len : {64}],
          signature_bytes : [content : {"sig"}, len : {63}]]

\* hex::decode: two digits a byte; an odd number of digits is an error.
hex_decode(hex) ==
    IF hex.len % 2 = 1
    THEN [ok |-> FALSE, bytes |-> [content |-> hex.content, len |-> 0]]
    ELSE [ok |-> TRUE, bytes |-> [content |-> hex.content, len |-> hex.len \div 2]]

\* prepare(..).subintent_hash(): the hash of the root subintent (header and
\* manifest); the signatures, which sign this hash, are not under it.
get_subintent_hash(partial) ==
    <<"subtxid", partial.partial_transaction.header,
      partial.partial_transaction.manifest>>

\* to_raw: the partial as a flat sequence of fields, each signature list
\* preceded by its length.
to_raw(partial) ==
    <<partial.partial_transaction.header.network_id,
      partial.partial_transaction.header.epoch_min,
      partial.partial_transaction.header.epoch_max,
      partial.partial_transaction.header.intent_discriminator,
      partial.partial_transaction.manifest,
      Len(partial.root_subintent_signatures)>>
    \o partial.root_subintent_signatures
    \o <<Len(partial.non_root_subintent_signatures)>>
    \o partial.non_root_subintent_signatures

\* from_raw of bytes that to_raw wrote.
from_raw(raw) ==
    [partial_transaction |->
        [header |-> [network_id |-> raw[1], epoch_min |-> raw[2],
                     epoch_max |-> raw[3], intent_discriminator |-> raw[4]],
         manifest |-> raw[5]],
     root_subintent_signatures |-> SubSeq(raw, 7, 6 + raw[6]),
     non_root_subintent_signatures |->
        SubSeq(raw, 8 + raw[6], 7 + raw[6] + raw[7 + raw[6]])]

\* build_unsigned_subintent_with_discriminator: the partial built over the
\* header with no signature, its hash and its bytes.
build_unsigned_subintent_with_discriminator(header) ==
    LET partial_tx ==
            [partial_transaction |->
                [header |-> header, manifest |-> "withdraw; YIELD_TO_PARENT;"],
             root_subintent_signatures |-> << >>,
             non_root_subintent_signatures |-> << >>]
    IN  [subintent_hash |-> get_subintent_hash(partial_tx),
         intent_discriminator |-> header.intent_discriminator,
         partial_transaction_bytes |-> to_raw(partial_tx)]

\* reconstruct_signed_partial that pushes each signature at the front.
reconstruct_signed_partial_newest_first(partial_transaction_bytes, stored) ==
    LET unsigned == from_raw(partial_transaction_bytes)
        malformed(s) ==
            \/ ~hex_decode(s.public_key_hex).ok
            \/ hex_decode(s.public_key_hex).bytes.len # 32
            \/ s.signature_bytes.len # 64
        n == Len(stored)
    IN  IF \E i \in DOMAIN stored : malformed(stored[i])
        THEN [ok |-> FALSE, partial |-> unsigned]
        ELSE [ok |-> TRUE,
              partial |-> [unsigned EXCEPT !.root_subintent_signatures =
                  [i \in 1..n |->
                      [public_key |-> hex_decode(stored[n + 1 - i].public_key_hex).bytes,
                       signature |-> stored[n + 1 - i].signature_bytes]]]]

\* reconstruct_signed_partial: the deserialized partial with its root
\* signatures replaced by the stored ones, in their order; an error when a
\* key is not 32 bytes or a signature not 64.
reconstruct_signed_partial(partial_transaction_bytes, stored) ==
    LET unsigned == from_raw(partial_transaction_bytes)
        malformed(s) ==
            \/ ~hex_decode(s.public_key_hex).ok
            \/ hex_decode(s.public_key_hex).bytes.len # 32
            \/ s.signature_bytes.len # 64
    IN  IF \E i \in DOMAIN stored : malformed(stored[i])
        THEN [ok |-> FALSE, partial |-> unsigned]
        ELSE [ok |-> TRUE,
              partial |-> [unsigned EXCEPT !.root_subintent_signatures =
                  [i \in DOMAIN stored |->
                      [public_key |-> hex_decode(stored[i].public_key_hex).bytes,
                       signature |-> stored[i].signature_bytes]]]]

\* add_signature_to_partial: the signature pushed after the partial's own.
add_signature_to_partial(partial, signature) ==
    [partial EXCEPT !.root_subintent_signatures = Append(@, signature)]

\* A partial built over any header, with any rows stored for it.
InitPartial ==
    /\ proposals = << >>
    /\ signatures = << >>
    /\ submission_attempts = << >>
    /\ current_epoch = 0
    /\ live_rule = [signers |-> RuleKeyHashes, threshold |-> 1]
    /\ gateway_txs = << >>
    /\ sign = [r \in SignReqs |-> SignIdle]
    /\ submit = [r \in SubmitReqs |-> SubmitIdle]
    /\ monitor = MonitorIdle
    /\ \E header \in IntentHeaders, n \in 0..MaxSignatures :
         \E stored \in [1..n -> StoredSignatures] :
            LET built == build_unsigned_subintent_with_discriminator(header)
            IN  call = [op |-> "partial", pc |-> "built", built |-> built,
                        stored |-> stored, attached |-> << >>,
                        result |-> [ok |-> FALSE,
                                    partial |-> from_raw(built.partial_transaction_bytes)]]

\* The stored bytes are deserialized for signing one signer at a time.
FromRaw ==
    /\ call.pc = "built"
    /\ call' = [call EXCEPT !.pc = "adding",
                            !.result = [ok |-> TRUE,
                                        partial |-> from_raw(call.built.partial_transaction_bytes)]]
    /\ UNCHANGED <<store_vars, ledger_vars, sign, submit, monitor>>

\* One more signer's signature over the hash is attached.
AddSignatureToPartial ==
    /\ call.pc = "adding"
    /\ Len(call.attached) < MaxSignatures
    /\ \E key \in {"pk1", "pk2"} :
        LET signature == [public_key |-> [content |-> key, len |-> 32],
                          signature |-> [content |-> "sig", len |-> 64]]
        IN  call' = [call EXCEPT
                       !.attached = Append(@, signature),
                       !.result.partial = add_signature_to_partial(@, signature)]
    /\ UNCHANGED <<store_vars, ledger_vars, sign, submit, monitor>>

\* submit_proposal's reconstruction from the stored bytes and rows.
ReconstructSignedPartial ==
    /\ call.pc = "built"
    /\ call' = [call EXCEPT
                   !.pc = "reconstructed",
                   !.result = reconstruct_signed_partial(
                                  call.built.partial_transaction_bytes, call.stored)]
    /\ UNCHANGED <<store_vars, ledger_vars, sign, submit, monitor>>

NextPartial == FromRaw \/ AddSignatureToPartial \/ ReconstructSignedPartial

PartialSpec == InitPartial /\ [][NextPartial]_vars

\* The stored row is a 32-byte key in 64 hex digits with a 64-byte signature.
WellFormed(s) == s.public_key_hex.len = 64 /\ s.signature_bytes.len = 64

C32_WitnessIncremental ==
    /\ call.pc = "adding"
    /\ Len(call.result.partial.root_subintent_signatures) = 3
    /\ call.attached[1] # call.attached[2]

====
